---- MODULE Spec2Model ----
(***************************************************************************)
(* Betaflight converter: the logical-config parser (betaflight_config.py), *)
(* the pin-capability parser (peripheral_pins.py) and the cross-validator  *)
(* (validator.py).                                                         *)
(*                                                                         *)
(* Strings that the code takes apart (pin names) are sequences of          *)
(* one-character strings, so that "B04" is <<"B","0","4">> and the        *)
(* conversions are computed character by character as the code does.      *)
(* Bus and UART names (SPI1, USART1) are sequences too, since the code     *)
(* builds them (f"SPI{bus_num}"); timer names are only compared and are    *)
(* TLA+ strings.                                                           *)
(***************************************************************************)
EXTENDS Integers, Sequences, FiniteSets, TLC

VARIABLES
    bf_config,   \* BetaflightConfig: [resources, timers]
    pinmap,      \* PeripheralPinMap: [timer_pins, spi_pins, i2c_pins, uart_pins]
    errors,      \* ConfigValidator.errors
    warnings,    \* ConfigValidator.warnings
    ret,         \* the last call and what it returned
    lines,       \* BetaflightConfig._parse: the lines read from the file
    pos          \* BetaflightConfig._parse: number of lines already handled

vars == <<bf_config, pinmap, errors, warnings, ret, lines, pos>>

-----------------------------------------------------------------------------
(* Bounds of the model *)

\* Longest configuration text, in lines.
MaxLines == 3
\* validate_* outside validate_all only append: no call starts with more
\* than this many issues already logged.
MaxIssues == 2

\* Longest list of validated motors handed to group_motors_by_timer.
MaxMotors == 3

\* Largest logical index of those motors.
MaxMotorIndex == 3

-----------------------------------------------------------------------------
(* Python values *)

\* None where a timer name is expected.
None == "None"
\* None where a string held as a sequence of characters is expected (a pin
\* name, a bus or UART name).
NonePin == <<"None">>
\* None where an int is expected.
NoneInt == -1

Digits == {"0", "1", "2", "3", "4", "5", "6", "7", "8", "9"}

\* Python truthiness of an Optional[str] holding a pin name.
Falsy(s) == s = NonePin \/ s = <<>>

\* str.find(sub) from index i on: the first index where sub starts, 0 if none.
RECURSIVE Find(_, _, _)
Find(s, sub, i) ==
    IF i + Len(sub) - 1 > Len(s) THEN 0
    ELSE IF SubSeq(s, i, i + Len(sub) - 1) = sub THEN i
    ELSE Find(s, sub, i + 1)

\* sub in s
Contains(s, sub) == Find(s, sub, 1) # 0

\* s.split(sep): the sequence of parts.
RECURSIVE Split(_, _)
Split(s, sep) ==
    LET k == Find(s, sep, 1)
    IN  IF k = 0 THEN <<s>>
        ELSE <<SubSeq(s, 1, k - 1)>> \o Split(SubSeq(s, k + Len(sep), Len(s)), sep)

\* s.replace('_', '')
RemoveUnderscores(s) == SelectSeq(s, LAMBDA c : c # "_")

\* s.endswith(tuple('0123456789'))
EndsWithDigit(s) == Len(s) > 0 /\ s[Len(s)] \in Digits

ALT == <<"_", "A", "L", "T">>

-----------------------------------------------------------------------------
(* betaflight_config.py: pin conversion *)

\* Patterns.PIN_LEADING_ZERO.sub(r'\1', s): every non-overlapping match of
\* '0' followed by a digit, left to right, is replaced by that digit.
RECURSIVE PIN_LEADING_ZERO_sub(_)
PIN_LEADING_ZERO_sub(s) ==
    IF Len(s) = 0 THEN <<>>
    ELSE IF Len(s) >= 2 /\ s[1] = "0" /\ s[2] \in Digits
         THEN <<s[2]>> \o PIN_LEADING_ZERO_sub(SubSeq(s, 3, Len(s)))
         ELSE <<s[1]>> \o PIN_LEADING_ZERO_sub(Tail(s))

\* BetaflightConfig.convert_pin_format: f"P{pin[0]}_{pin[1:]}"
convert_pin_format(bf_pin) ==
    LET pin == PIN_LEADING_ZERO_sub(bf_pin)
    IN  <<"P", pin[1], "_">> \o Tail(pin)

-----------------------------------------------------------------------------
(* peripheral_pins.py: the capability parser *)

\* A conversion that keeps the underscores of the base pin.
convert_pinname_to_macro_keeping(pin) ==
    IF Contains(pin, ALT)
    THEN LET parts == Split(pin, ALT)
         IN  <<parts[1], ALT \o parts[2]>>
    ELSE <<pin, <<>>>>

\* convert_pinname_to_macro: <<base_pin, alt_variant>>
convert_pinname_to_macro(pin) ==
    IF Contains(pin, ALT)
    THEN LET parts == Split(pin, ALT)
         IN  <<RemoveUnderscores(parts[1]), ALT \o parts[2]>>
    ELSE <<RemoveUnderscores(pin), <<>>>>

\* An entry of PinMap_TIM as Patterns.TIMER_ENTRY captures it:
\* pin token, timer, AF number, channel, inverted flag.
TimEntry(pin, timer, af, channel, inv) ==
    [pin |-> pin, periph |-> timer, af |-> af, channel |-> channel, inv |-> inv]

\* An entry of another PinMap_* array as Patterns.PERIPHERAL_ENTRY captures it.
Entry(pin, periph) == [pin |-> pin, periph |-> periph]

\* PeripheralPinMap._parse_timers: one TimerPin per entry, in file order; the
\* ALT suffix of the pin token is dropped.
_parse_timers(content) ==
    IF "PinMap_TIM" \notin DOMAIN content THEN <<>>
    ELSE LET sec == content["PinMap_TIM"]
         IN  [i \in 1..Len(sec) |->
                [pin |-> convert_pinname_to_macro(sec[i].pin)[1],
                 timer |-> sec[i].periph,
                 af |-> sec[i].af,
                 channel |-> sec[i].channel,
                 is_complementary |-> (sec[i].inv = 1)]]

\* The records of one section of a bus table, tagged with the signal.
ParseSection(content, map_name, signal) ==
    IF map_name \notin DOMAIN content THEN <<>>
    ELSE LET sec == content[map_name]
         IN  [i \in 1..Len(sec) |->
                LET pa == convert_pinname_to_macro(sec[i].pin)
                IN  [pin |-> pa[1], bus |-> sec[i].periph,
                     signal |-> signal, alt_variant |-> pa[2]]]

\* A _parse_spi that returns at the first section it does not find.
_parse_spi_returning(content) ==
    IF "PinMap_SPI_MOSI" \notin DOMAIN content THEN <<>>
    ELSE IF "PinMap_SPI_MISO" \notin DOMAIN content
    THEN ParseSection(content, "PinMap_SPI_MOSI", "MOSI")
    ELSE ParseSection(content, "PinMap_SPI_MOSI", "MOSI")
            \o ParseSection(content, "PinMap_SPI_MISO", "MISO")
            \o ParseSection(content, "PinMap_SPI_SCLK", "SCLK")

\* PeripheralPinMap._parse_spi: sections in the order MOSI, MISO, SCLK.
_parse_spi(content) ==
    ParseSection(content, "PinMap_SPI_MOSI", "MOSI")
        \o ParseSection(content, "PinMap_SPI_MISO", "MISO")
        \o ParseSection(content, "PinMap_SPI_SCLK", "SCLK")

\* PeripheralPinMap._parse_i2c: sections in the order SDA, SCL.
_parse_i2c(content) ==
    ParseSection(content, "PinMap_I2C_SDA", "SDA")
        \o ParseSection(content, "PinMap_I2C_SCL", "SCL")

\* PeripheralPinMap._parse_uart: sections in the order TX, RX.  The UARTPin
\* field uart is named bus here, as in SPIPin and I2CPin.
_parse_uart(content) ==
    ParseSection(content, "PinMap_UART_TX", "TX")
        \o ParseSection(content, "PinMap_UART_RX", "RX")

\* PeripheralPinMap.__init__ on a file that exists.
PeripheralPinMap(content) ==
    [timer_pins |-> _parse_timers(content),
     spi_pins |-> _parse_spi(content),
     i2c_pins |-> _parse_i2c(content),
     uart_pins |-> _parse_uart(content)]

-----------------------------------------------------------------------------
(* peripheral_pins.py: lookups *)

\* A validate_timer that goes through the table from its end.
validate_timer_last_record(pm, pin, timer, af) ==
    LET tps == pm.timer_pins
        hit == {i \in 1..Len(tps) :
                    tps[i].pin = pin /\ tps[i].timer = timer /\ tps[i].af = af}
    IN  IF hit = {} THEN NoneInt
        ELSE tps[CHOOSE i \in hit : \A j \in hit : i >= j].channel

\* A validate_timer that takes any record of the pin, with or without the
\* separator, and the AF, whatever the timer name.
validate_timer_by_af(pm, pin, timer, af) ==
    LET tps == pm.timer_pins
        hit == {i \in 1..Len(tps) :
                    tps[i].pin = RemoveUnderscores(pin) /\ tps[i].af = af}
    IN  IF hit = {} THEN NoneInt
        ELSE tps[CHOOSE i \in hit : \A j \in hit : i <= j].channel

\* A validate_timer that looks at the timer name only.
validate_timer_by_name(pm, pin, timer, af) ==
    LET tps == pm.timer_pins
        hit == {i \in 1..Len(tps) : tps[i].timer = timer}
    IN  IF hit = {} THEN NoneInt
        ELSE tps[CHOOSE i \in hit : \A j \in hit : i <= j].channel

\* PeripheralPinMap.validate_timer: the channel, or None.
validate_timer(pm, pin, timer, af) ==
    LET tps == pm.timer_pins
        exact == {i \in 1..Len(tps) :
                    tps[i].pin = pin /\ tps[i].timer = timer /\ tps[i].af = af}
        pin_base ==
            IF Contains(pin, <<"_">>) /\ ~EndsWithDigit(pin)
            THEN Split(pin, <<"_">>)[1] \o <<"_">> \o Split(pin, <<"_">>)[2]
            ELSE Split(pin, ALT)[1]
        alt == {i \in 1..Len(tps) :
                    /\ Split(tps[i].pin, ALT)[1] = pin_base
                    /\ tps[i].timer = timer /\ tps[i].af = af}
        Min(S) == CHOOSE i \in S : \A j \in S : i <= j
    IN  IF exact # {} THEN tps[Min(exact)].channel
        ELSE IF alt # {} THEN tps[Min(alt)].channel
        ELSE NoneInt

\* A get_uart that does not compare the pin.
get_uart_of_any_pin(pm, pin, signal) ==
    LET ups == pm.uart_pins
        hit == {i \in 1..Len(ups) : ups[i].signal = signal}
    IN  IF hit = {} THEN NonePin
        ELSE ups[CHOOSE i \in hit : \A j \in hit : i <= j].bus

\* PeripheralPinMap.get_uart: the UART of the first record of the pin and
\* signal, or None.
get_uart(pm, pin, signal) ==
    LET ups == pm.uart_pins
        hit == {i \in 1..Len(ups) : ups[i].pin = pin /\ ups[i].signal = signal}
    IN  IF hit = {} THEN NonePin
        ELSE ups[CHOOSE i \in hit : \A j \in hit : i <= j].bus

\* A lookup that settles on the first record of the pin and signal.
get_pin_for_first_record(records, base_pin, signal, target) ==
    LET matching_pins ==
            SelectSeq(records, LAMBDA r : r.pin = base_pin /\ r.signal = signal)
    IN  IF matching_pins # <<>> /\ matching_pins[1].bus = target
        THEN base_pin \o matching_pins[1].alt_variant
        ELSE NonePin

\* A lookup that hands the base pin back when no record reaches the target.
get_pin_for_unchecked(records, base_pin, signal, target) ==
    LET matching_pins ==
            SelectSeq(records, LAMBDA r : r.pin = base_pin /\ r.signal = signal)
        hit == {i \in 1..Len(matching_pins) : matching_pins[i].bus = target}
    IN  IF hit = {} THEN base_pin
        ELSE base_pin \o matching_pins[CHOOSE i \in hit : \A j \in hit : i <= j].alt_variant

\* The body shared by get_pin_for_spi_bus, get_pin_for_i2c_bus and
\* get_pin_for_uart: among the records of the base pin and signal, in table
\* order, the first whose bus is the target gives base pin + ALT suffix.
get_pin_for(records, base_pin, signal, target) ==
    LET matching_pins ==
            SelectSeq(records, LAMBDA r : r.pin = base_pin /\ r.signal = signal)
        hit == {i \in 1..Len(matching_pins) : matching_pins[i].bus = target}
    IN  IF hit = {} THEN NonePin
        ELSE base_pin \o matching_pins[CHOOSE i \in hit : \A j \in hit : i <= j].alt_variant

get_pin_for_spi_bus(pm, base_pin, signal, target_bus) ==
    get_pin_for(pm.spi_pins, base_pin, signal, target_bus)

get_pin_for_i2c_bus(pm, base_pin, signal, target_bus) ==
    get_pin_for(pm.i2c_pins, base_pin, signal, target_bus)

get_pin_for_uart(pm, base_pin, signal, target_uart) ==
    get_pin_for(pm.uart_pins, base_pin, signal, target_uart)

-----------------------------------------------------------------------------
(* betaflight_config.py: the logical-config parser *)

\* A dict with no key.
EmptyDict == [k \in {} |-> k]

\* A line as the patterns of class Patterns capture it.
\* resource <TYPE> <index> <pin>
ResourceLine(rtype, index, pin) ==
    [kind |-> "resource", rtype |-> rtype, index |-> index, pin |-> pin]
\* timer <pin> AF<n>
TimerLine(pin, af) == [kind |-> "timer", pin |-> pin, af |-> af]
\* # pin <pin>: <timer> CH<n> (AF<n>)
TimerComment(pin, timer, channel) ==
    [kind |-> "timer_comment", pin |-> pin, timer |-> timer, channel |-> channel]

\* BetaflightConfig.__init__ before _parse.
EmptyConfig == [resources |-> EmptyDict, timers |-> EmptyDict]

\* BetaflightConfig._parse_resource
_parse_resource(cfg, line) ==
    IF line.kind # "resource" THEN cfg
    ELSE LET old == IF line.rtype \in DOMAIN cfg.resources
                    THEN cfg.resources[line.rtype] ELSE <<>>
             rp == [resource_type |-> line.rtype, index |-> line.index, pin |-> line.pin]
         IN  [cfg EXCEPT !.resources = (line.rtype :> Append(old, rp)) @@ cfg.resources]

\* BetaflightConfig._parse_timer: a timer line stores a new TimerAssignment
\* under the pin; a comment updates the entry of the pin or creates one
\* with af 0.
_parse_timer(cfg, line) ==
    IF line.kind = "timer"
    THEN [cfg EXCEPT !.timers =
            (line.pin :> [pin |-> line.pin, af |-> line.af,
                          timer |-> None, channel |-> NoneInt]) @@ cfg.timers]
    ELSE IF line.kind = "timer_comment"
    THEN IF line.pin \in DOMAIN cfg.timers
         THEN [cfg EXCEPT !.timers[line.pin].timer = line.timer,
                          !.timers[line.pin].channel = line.channel]
         ELSE [cfg EXCEPT !.timers =
                 (line.pin :> [pin |-> line.pin, af |-> 0,
                               timer |-> line.timer, channel |-> line.channel])
                 @@ cfg.timers]
    ELSE cfg

\* One iteration of the loop of BetaflightConfig._parse.
ParseOneLine(cfg, line) == _parse_timer(_parse_resource(cfg, line), line)

\* BetaflightConfig._parse over a whole text.
RECURSIVE _parse(_, _)
_parse(cfg, text) ==
    IF text = <<>> THEN cfg ELSE _parse(ParseOneLine(cfg, Head(text)), Tail(text))

\* BetaflightConfig.get_resources
get_resources(cfg, resource_type) ==
    IF resource_type \in DOMAIN cfg.resources THEN cfg.resources[resource_type] ELSE <<>>

\* BetaflightConfig.get_motors
get_motors(cfg) == get_resources(cfg, "MOTOR")

\* A get_*_pins loop that takes the resources of every index.
PinsOfAnyIndex(cfg, type_of, n) ==
    LET found == {s \in DOMAIN type_of : get_resources(cfg, type_of[s]) # <<>>}
    IN  [s \in found |->
            get_resources(cfg, type_of[s])[Len(get_resources(cfg, type_of[s]))].pin]

\* The dict a get_*_pins loop builds: for each signal that has a resource of
\* the index, the pin of the last such resource.
PinsOfIndex(cfg, type_of, n) ==
    LET found == {s \in DOMAIN type_of :
                    \E i \in 1..Len(get_resources(cfg, type_of[s])) :
                        get_resources(cfg, type_of[s])[i].index = n}
    IN  [s \in found |->
            LET rs == get_resources(cfg, type_of[s])
                last == CHOOSE i \in 1..Len(rs) :
                            /\ rs[i].index = n
                            /\ \A j \in 1..Len(rs) : rs[j].index = n => j <= i
            IN  rs[last].pin]

\* None where a dict of pins is expected.
NoPins == [none |-> TRUE]

\* BetaflightConfig.get_spi_pins
get_spi_pins(cfg, bus_num) ==
    LET pins == PinsOfIndex(cfg, [MOSI |-> "SPI_MOSI", MISO |-> "SPI_MISO",
                                  SCLK |-> "SPI_SCK"], bus_num)
    IN  IF Cardinality(DOMAIN pins) = 3 THEN pins ELSE NoPins

\* BetaflightConfig.get_i2c_pins
get_i2c_pins(cfg, bus_num) ==
    LET pins == PinsOfIndex(cfg, [SCL |-> "I2C_SCL", SDA |-> "I2C_SDA"], bus_num)
    IN  IF Cardinality(DOMAIN pins) = 2 THEN pins ELSE NoPins

\* BetaflightConfig.get_uart_pins
get_uart_pins(cfg, uart_num) ==
    LET pins == PinsOfIndex(cfg, [TX |-> "SERIAL_TX", RX |-> "SERIAL_RX"], uart_num)
    IN  IF Cardinality(DOMAIN pins) = 2 THEN pins ELSE NoPins

-----------------------------------------------------------------------------
(* validator.py *)

\* A ValidationError that never carries the pin.
ValidationError_without_pin(severity, message, prefix, index, pin) ==
    [severity |-> severity, message |-> message,
     resource |-> [prefix |-> prefix, index |-> index], pin |-> NonePin]

\* ValidationError; resource is the f-string's prefix and number, message
\* the f-string's template and the values it prints.
ValidationError(severity, message, prefix, index, pin) ==
    [severity |-> severity, message |-> message,
     resource |-> [prefix |-> prefix, index |-> index], pin |-> pin]

\* What one turn of a validate_* loop, or a whole call, adds: entries to the
\* list it returns, and issues to the validator's two lists.
Out(validated, errs, warns) ==
    [validated |-> validated, errors |-> errs, warnings |-> warns]

\* A concatenation that stops at the first part that logged an error.
Join_until_error(a, b) ==
    IF a.errors # <<>> THEN a
    ELSE [validated |-> a.validated \o b.validated,
          errors |-> a.errors \o b.errors,
          warnings |-> a.warnings \o b.warnings]

\* One turn's additions after those of the turns before it.
Join(a, b) ==
    [validated |-> a.validated \o b.validated,
     errors |-> a.errors \o b.errors,
     warnings |-> a.warnings \o b.warnings]

\* The body of the loop of ConfigValidator.validate_motors for one motor.
validate_motor_step(cfg, pm, motor) ==
    LET pin_bf == motor.pin
        pin_arduino == convert_pin_format(pin_bf)
    IN  IF pin_bf \notin DOMAIN cfg.timers
        THEN Out(<<>>, <<ValidationError("error",
                [kind |-> "has no timer assignment", index |-> motor.index,
                 pin |-> pin_bf],
                "MOTOR_", motor.index, pin_bf)>>, <<>>)
        ELSE
    LET timer_assignment == cfg.timers[pin_bf]
        channel == validate_timer(pm, pin_arduino, timer_assignment.timer,
                                  timer_assignment.af)
    IN  IF channel = NoneInt
        THEN Out(<<>>, <<ValidationError("error",
                [kind |-> "does not support", index |-> motor.index,
                 pin |-> pin_arduino, timer |-> timer_assignment.timer,
                 af |-> timer_assignment.af],
                "MOTOR_", motor.index, pin_bf)>>, <<>>)
        ELSE
    LET mismatch == /\ timer_assignment.channel \notin {NoneInt, 0}
                    /\ channel # timer_assignment.channel
    IN  Out(<<[index |-> motor.index, pin_bf |-> pin_bf,
               pin_arduino |-> pin_arduino,
               timer |-> timer_assignment.timer,
               channel |-> channel, af |-> timer_assignment.af]>>,
            <<>>,
            IF mismatch
            THEN <<ValidationError("warning",
                    [kind |-> "Expected CH, found CH", index |-> motor.index,
                     expected |-> timer_assignment.channel, found |-> channel],
                    "MOTOR_", motor.index, pin_bf)>>
            ELSE <<>>)

RECURSIVE validate_motors_loop(_, _, _)
validate_motors_loop(cfg, pm, motors) ==
    IF motors = <<>> THEN Out(<<>>, <<>>, <<>>)
    ELSE Join(validate_motor_step(cfg, pm, Head(motors)),
              validate_motors_loop(cfg, pm, Tail(motors)))

\* ConfigValidator.validate_motors: the list returned and the issues appended.
validate_motors_run(cfg, pm) == validate_motors_loop(cfg, pm, get_motors(cfg))

\* The for/else over the signals of one group: the first signal, in dict
\* order, whose pin cannot reach the target (0 when all can).
FirstUnreachable(records, pins_arduino_base, order, target) ==
    LET bad == {k \in 1..Len(order) :
                  Falsy(get_pin_for(records, pins_arduino_base[order[k]],
                                    order[k], target))}
    IN  IF bad = {} THEN 0 ELSE CHOOSE k \in bad : \A j \in bad : k <= j

\* [res.index for res in self.bf_config.get_resources(resource_type)]
IndicesOf(cfg, resource_type) ==
    [i \in 1..Len(get_resources(cfg, resource_type)) |->
        get_resources(cfg, resource_type)[i].index]

\* str(d) for one decimal digit.
DigitChar(d) ==
    CASE d = 0 -> "0" [] d = 1 -> "1" [] d = 2 -> "2" [] d = 3 -> "3"
      [] d = 4 -> "4" [] d = 5 -> "5" [] d = 6 -> "6" [] d = 7 -> "7"
      [] d = 8 -> "8" [] d = 9 -> "9"

\* The decimal digits an f-string prints for an int >= 0.
RECURSIVE IntToStr(_)
IntToStr(n) ==
    IF n < 10 THEN <<DigitChar(n)>>
    ELSE IntToStr(n \div 10) \o <<DigitChar(n % 10)>>

\* pins_arduino_base: each pin of the group through convert_pin_format.
BasePins(pins_bf) ==
    [signal \in DOMAIN pins_bf |-> convert_pin_format(pins_bf[signal])]

\* The body of the loop of ConfigValidator.validate_spi_buses for one bus
\* number.
validate_spi_step(cfg, pm, bus_num) ==
    LET pins_bf == get_spi_pins(cfg, bus_num)
        target_bus == <<"S", "P", "I">> \o IntToStr(bus_num)
        order == <<"MOSI", "MISO", "SCLK">>
    IN  IF pins_bf = NoPins
        THEN Out(<<>>, <<ValidationError("error",
                [kind |-> "has incomplete pin assignments", index |-> bus_num],
                "SPI", bus_num, NonePin)>>, <<>>)
        ELSE
    LET base == BasePins(pins_bf)
        k == FirstUnreachable(pm.spi_pins, base, order, target_bus)
    IN  IF k # 0
        THEN Out(<<>>, <<ValidationError("error",
                [kind |-> "cannot reach", index |-> bus_num, signal |-> order[k],
                 pin |-> base[order[k]], target |-> target_bus],
                "SPI", bus_num, NonePin)>>, <<>>)
        ELSE Out(<<[bus_num |-> bus_num, bus_name |-> target_bus,
                    mosi |-> get_pin_for_spi_bus(pm, base["MOSI"], "MOSI", target_bus),
                    miso |-> get_pin_for_spi_bus(pm, base["MISO"], "MISO", target_bus),
                    sclk |-> get_pin_for_spi_bus(pm, base["SCLK"], "SCLK", target_bus)]>>,
                 <<>>, <<>>)

RECURSIVE validate_spi_loop(_, _, _)
validate_spi_loop(cfg, pm, bus_numbers) ==
    IF bus_numbers = <<>> THEN Out(<<>>, <<>>, <<>>)
    ELSE Join(validate_spi_step(cfg, pm, Head(bus_numbers)),
              validate_spi_loop(cfg, pm, Tail(bus_numbers)))

\* ConfigValidator.validate_spi_buses: one turn per SPI_SCK resource.
validate_spi_buses_run(cfg, pm) ==
    validate_spi_loop(cfg, pm, IndicesOf(cfg, "SPI_SCK"))

\* The body of the loop of ConfigValidator.validate_i2c_buses for one bus
\* number.
validate_i2c_step(cfg, pm, bus_num) ==
    LET pins_bf == get_i2c_pins(cfg, bus_num)
        target_bus == <<"I", "2", "C">> \o IntToStr(bus_num)
        order == <<"SCL", "SDA">>
    IN  IF pins_bf = NoPins
        THEN Out(<<>>, <<ValidationError("error",
                [kind |-> "has incomplete pin assignments", index |-> bus_num],
                "I2C", bus_num, NonePin)>>, <<>>)
        ELSE
    LET base == BasePins(pins_bf)
        k == FirstUnreachable(pm.i2c_pins, base, order, target_bus)
    IN  IF k # 0
        THEN Out(<<>>, <<ValidationError("error",
                [kind |-> "cannot reach", index |-> bus_num, signal |-> order[k],
                 pin |-> base[order[k]], target |-> target_bus],
                "I2C", bus_num, NonePin)>>, <<>>)
        ELSE Out(<<[bus_num |-> bus_num, bus_name |-> target_bus,
                    scl |-> get_pin_for_i2c_bus(pm, base["SCL"], "SCL", target_bus),
                    sda |-> get_pin_for_i2c_bus(pm, base["SDA"], "SDA", target_bus)]>>,
                 <<>>, <<>>)

RECURSIVE validate_i2c_loop(_, _, _)
validate_i2c_loop(cfg, pm, bus_numbers) ==
    IF bus_numbers = <<>> THEN Out(<<>>, <<>>, <<>>)
    ELSE Join(validate_i2c_step(cfg, pm, Head(bus_numbers)),
              validate_i2c_loop(cfg, pm, Tail(bus_numbers)))

\* ConfigValidator.validate_i2c_buses: one turn per I2C_SCL resource.
validate_i2c_buses_run(cfg, pm) ==
    validate_i2c_loop(cfg, pm, IndicesOf(cfg, "I2C_SCL"))

\* The body of the loop of ConfigValidator.validate_uarts for one UART
\* number.
validate_uart_step(cfg, pm, uart_num) ==
    LET pins_bf == get_uart_pins(cfg, uart_num)
        order == <<"TX", "RX">>
    IN  IF pins_bf = NoPins
        THEN Out(<<>>, <<>>, <<ValidationError("warning",
                [kind |-> "has incomplete pin assignments (TX only?)",
                 index |-> uart_num],
                "UART", uart_num, NonePin)>>)
        ELSE
    LET base == BasePins(pins_bf)
        first_uart == get_uart(pm, base["TX"], "TX")
    IN  IF Falsy(first_uart)
        THEN Out(<<>>, <<ValidationError("error",
                [kind |-> "TX pin not found in pinmap", index |-> uart_num,
                 pin |-> base["TX"]],
                "UART", uart_num, NonePin)>>, <<>>)
        ELSE
    LET k == FirstUnreachable(pm.uart_pins, base, order, first_uart)
    IN  IF k # 0
        THEN Out(<<>>, <<ValidationError("error",
                [kind |-> "cannot reach", index |-> uart_num, signal |-> order[k],
                 pin |-> base[order[k]], target |-> first_uart],
                "UART", uart_num, NonePin)>>, <<>>)
        ELSE Out(<<[uart_num |-> uart_num, uart_name |-> first_uart,
                    tx |-> get_pin_for_uart(pm, base["TX"], "TX", first_uart),
                    rx |-> get_pin_for_uart(pm, base["RX"], "RX", first_uart)]>>,
                 <<>>, <<>>)

RECURSIVE validate_uarts_loop(_, _, _)
validate_uarts_loop(cfg, pm, uart_numbers) ==
    IF uart_numbers = <<>> THEN Out(<<>>, <<>>, <<>>)
    ELSE Join(validate_uart_step(cfg, pm, Head(uart_numbers)),
              validate_uarts_loop(cfg, pm, Tail(uart_numbers)))

\* ConfigValidator.validate_uarts: one turn per SERIAL_TX resource.
validate_uarts_run(cfg, pm) ==
    validate_uarts_loop(cfg, pm, IndicesOf(cfg, "SERIAL_TX"))

\* A result that warnings block too.
validate_all_result_no_issue(errs, warns) == Len(errs) + Len(warns) = 0

\* What validate_all returns, from the two lists at the end of the run.
validate_all_result(errs, warns) == Len(errs) = 0

\* ConfigValidator.validate_all after the two clear() calls: the four
\* validations in turn, each appending to the lists; their return values
\* are dropped.
validate_all_run(cfg, pm) ==
    Join(Join(validate_motors_run(cfg, pm), validate_spi_buses_run(cfg, pm)),
         Join(validate_i2c_buses_run(cfg, pm), validate_uarts_run(cfg, pm)))

-----------------------------------------------------------------------------
(* Inputs: the two source texts *)

\* Logical pins of the sample configuration.
A05 == <<"A", "0", "5">>
A06 == <<"A", "0", "6">>
A07 == <<"A", "0", "7">>
A08 == <<"A", "0", "8">>
B06 == <<"B", "0", "6">>
B07 == <<"B", "0", "7">>
B08 == <<"B", "0", "8">>
B09 == <<"B", "0", "9">>

\* The lines a configuration text is made of.
ConfigLines ==
    {ResourceLine("MOTOR", 1, A08),
     ResourceLine("MOTOR", 2, B06),
     TimerLine(A08, 1),
     TimerComment(A08, "TIM1", 1),
     TimerComment(A08, "TIM1", 2),
     ResourceLine("SPI_MOSI", 1, A07),
     ResourceLine("SPI_MOSI", 1, A08),
     ResourceLine("SPI_MISO", 1, A06),
     ResourceLine("SPI_SCK", 1, A05),
     ResourceLine("I2C_SCL", 1, B08),
     ResourceLine("I2C_SDA", 1, B09),
     ResourceLine("SERIAL_TX", 1, B06),
     ResourceLine("SERIAL_RX", 1, B07),
     ResourceLine("SERVO", 1, B07)}

\* The configuration texts: every sequence of at most MaxLines lines.
Texts == UNION {[1..k -> ConfigLines] : k \in 0..MaxLines}

\* Pin tokens and bus names of the sample PeripheralPins.c.
PA_5 == <<"P", "A", "_", "5">>
PA_6 == <<"P", "A", "_", "6">>
PA_7 == <<"P", "A", "_", "7">>
PA_8 == <<"P", "A", "_", "8">>
PB_4 == <<"P", "B", "_", "4">>
PB_5 == <<"P", "B", "_", "5">>
PB_5_ALT1 == <<"P", "B", "_", "5", "_", "A", "L", "T", "1">>
PB_6 == <<"P", "B", "_", "6">>
PB_7 == <<"P", "B", "_", "7">>
PB_8 == <<"P", "B", "_", "8">>
PB_9 == <<"P", "B", "_", "9">>
SPI1 == <<"S", "P", "I", "1">>
SPI3 == <<"S", "P", "I", "3">>
I2C1 == <<"I", "2", "C", "1">>
PB_6_ALT1 == <<"P", "B", "_", "6", "_", "A", "L", "T", "1">>
USART1 == <<"U", "S", "A", "R", "T", "1">>
USART6 == <<"U", "S", "A", "R", "T", "6">>

\* The sections of a PeripheralPins.c, each the sequence of its entries.
SampleContent ==
    [PinMap_TIM |-> <<TimEntry(PA_8, "TIM1", 1, 1, 0), TimEntry(PB_4, "TIM3", 2, 1, 0),
                      TimEntry(PB_4 \o ALT \o <<"1">>, "TIM3", 2, 2, 1)>>,
     PinMap_SPI_MOSI |-> <<Entry(PA_7, SPI1), Entry(PB_5, SPI1), Entry(PB_5_ALT1, SPI3)>>,
     PinMap_SPI_MISO |-> <<Entry(PA_6, SPI1)>>,
     PinMap_SPI_SCLK |-> <<Entry(PA_5, SPI1)>>,
     PinMap_I2C_SDA |-> <<Entry(PB_9, I2C1)>>,
     PinMap_I2C_SCL |-> <<Entry(PB_8, I2C1)>>,
     PinMap_UART_TX |-> <<Entry(PB_6, USART1), Entry(PB_6_ALT1, USART6)>>,
     PinMap_UART_RX |-> <<Entry(PB_7, USART1)>>]

Reverse(q) == [i \in 1..Len(q) |-> q[Len(q) + 1 - i]]

\* The same entries with every section in the opposite order.
ReversedContent == [n \in DOMAIN SampleContent |-> Reverse(SampleContent[n])]

\* PeripheralPinMap.__init__ on a path that does not exist: nothing parsed.
EmptyPinMap == [timer_pins |-> <<>>, spi_pins |-> <<>>, i2c_pins |-> <<>>,
                uart_pins |-> <<>>]

PinMaps == {PeripheralPinMap(SampleContent), PeripheralPinMap(ReversedContent),
            EmptyPinMap}

-----------------------------------------------------------------------------
(* The validator: a configuration and a pin map are parsed, a validator is
   built on them, and its methods are called in any order. *)

Init ==
    /\ \E text \in Texts : bf_config = _parse(EmptyConfig, text)
    /\ pinmap \in PinMaps
    /\ errors = <<>>
    /\ warnings = <<>>
    /\ ret = [op |-> "__init__"]
    /\ lines = <<>>
    /\ pos = 0

\* A validate_* call made directly appends to what is logged already.
Room == Len(errors) + Len(warnings) <= MaxIssues

\* A validate_motors that starts from empty lists, as validate_all does.
validate_motors_clearing ==
    /\ Room
    /\ LET r == validate_motors_run(bf_config, pinmap)
       IN  /\ errors' = r.errors
           /\ warnings' = r.warnings
           /\ ret' = [op |-> "validate_motors", val |-> r.validated]
    /\ UNCHANGED <<bf_config, pinmap, lines, pos>>

\* A validate_all that does not clear the two lists.
validate_all_accumulating ==
    /\ LET r == validate_all_run(bf_config, pinmap)
       IN  /\ errors' = errors \o r.errors
           /\ warnings' = warnings \o r.warnings
           /\ ret' = [op |-> "validate_all",
                      val |-> validate_all_result(errors \o r.errors,
                                                  warnings \o r.warnings)]
    /\ UNCHANGED <<bf_config, pinmap, lines, pos>>

\* A validate_motors that takes each motor off the configuration as it
\* handles it.
validate_motors_consuming ==
    /\ Room
    /\ LET r == validate_motors_run(bf_config, pinmap)
       IN  /\ errors' = errors \o r.errors
           /\ warnings' = warnings \o r.warnings
           /\ ret' = [op |-> "validate_motors", val |-> r.validated]
    /\ bf_config' = [bf_config EXCEPT !.resources =
                        [t \in DOMAIN bf_config.resources |->
                            IF t = "MOTOR" THEN <<>> ELSE bf_config.resources[t]]]
    /\ UNCHANGED <<pinmap, lines, pos>>

validate_all ==
    /\ LET r == validate_all_run(bf_config, pinmap)
       IN  /\ errors' = r.errors
           /\ warnings' = r.warnings
           /\ ret' = [op |-> "validate_all",
                      val |-> validate_all_result(r.errors, r.warnings)]
    /\ UNCHANGED <<bf_config, pinmap, lines, pos>>

validate_motors ==
    /\ Room
    /\ LET r == validate_motors_run(bf_config, pinmap)
       IN  /\ errors' = errors \o r.errors
           /\ warnings' = warnings \o r.warnings
           /\ ret' = [op |-> "validate_motors", val |-> r.validated]
    /\ UNCHANGED <<bf_config, pinmap, lines, pos>>

validate_spi_buses ==
    /\ Room
    /\ LET r == validate_spi_buses_run(bf_config, pinmap)
       IN  /\ errors' = errors \o r.errors
           /\ warnings' = warnings \o r.warnings
           /\ ret' = [op |-> "validate_spi_buses", val |-> r.validated]
    /\ UNCHANGED <<bf_config, pinmap, lines, pos>>

validate_i2c_buses ==
    /\ Room
    /\ LET r == validate_i2c_buses_run(bf_config, pinmap)
       IN  /\ errors' = errors \o r.errors
           /\ warnings' = warnings \o r.warnings
           /\ ret' = [op |-> "validate_i2c_buses", val |-> r.validated]
    /\ UNCHANGED <<bf_config, pinmap, lines, pos>>

validate_uarts ==
    /\ Room
    /\ LET r == validate_uarts_run(bf_config, pinmap)
       IN  /\ errors' = errors \o r.errors
           /\ warnings' = warnings \o r.warnings
           /\ ret' = [op |-> "validate_uarts", val |-> r.validated]
    /\ UNCHANGED <<bf_config, pinmap, lines, pos>>

Next ==
    \/ validate_all
    \/ validate_motors
    \/ validate_spi_buses
    \/ validate_i2c_buses
    \/ validate_uarts

Spec == Init /\ [][Next]_vars

-----------------------------------------------------------------------------
(* The parser: BetaflightConfig._parse reads the lines of a text in order. *)

InitParse ==
    /\ lines \in Texts
    /\ pos = 0
    /\ bf_config = EmptyConfig
    /\ pinmap = EmptyPinMap
    /\ errors = <<>>
    /\ warnings = <<>>
    /\ ret = [op |-> "_parse"]

\* One turn of the loop over the lines.
ParseLine ==
    /\ pos < Len(lines)
    /\ bf_config' = ParseOneLine(bf_config, lines[pos + 1])
    /\ pos' = pos + 1
    /\ UNCHANGED <<pinmap, errors, warnings, ret, lines>>

NextParse == ParseLine

SpecParse == InitParse /\ [][NextParse]_vars

-----------------------------------------------------------------------------
(* The lookups and conversions, called on their own. *)

\* Logical pins: a letter and two digits.
LogicalPins == {<<l, d1, d2>> : l \in {"A", "B", "E"}, d1 \in Digits, d2 \in Digits}

PA6 == <<"P", "A", "6">>
PA7 == <<"P", "A", "7">>
PB5 == <<"P", "B", "5">>
PB6 == <<"P", "B", "6">>
PB7 == <<"P", "B", "7">>
PB8 == <<"P", "B", "8">>
PB9 == <<"P", "B", "9">>

\* Base pins the lookups are called with.
LookupPins == {PA6, PA7, PB5, PB6, PB7, PB8, PB9, PB_5, PB_6}

InitLookup ==
    /\ bf_config = EmptyConfig
    /\ pinmap \in PinMaps
    /\ errors = <<>>
    /\ warnings = <<>>
    /\ ret = [op |-> "__init__"]
    /\ lines = <<>>
    /\ pos = 0

call_convert_pin_format ==
    /\ \E bf_pin \in LogicalPins :
         ret' = [op |-> "convert_pin_format", bf_pin |-> bf_pin,
                 val |-> convert_pin_format(bf_pin)]
    /\ UNCHANGED <<bf_config, pinmap, errors, warnings, lines, pos>>

call_get_pin_for_spi_bus ==
    /\ \E base_pin \in LookupPins, signal \in {"MOSI", "MISO", "SCLK"},
          target \in {SPI1, SPI3} :
         ret' = [op |-> "get_pin_for_spi_bus", base_pin |-> base_pin,
                 signal |-> signal, target |-> target,
                 val |-> get_pin_for_spi_bus(pinmap, base_pin, signal, target)]
    /\ UNCHANGED <<bf_config, pinmap, errors, warnings, lines, pos>>

call_get_pin_for_i2c_bus ==
    /\ \E base_pin \in LookupPins, signal \in {"SCL", "SDA"},
          target \in {I2C1, SPI1} :
         ret' = [op |-> "get_pin_for_i2c_bus", base_pin |-> base_pin,
                 signal |-> signal, target |-> target,
                 val |-> get_pin_for_i2c_bus(pinmap, base_pin, signal, target)]
    /\ UNCHANGED <<bf_config, pinmap, errors, warnings, lines, pos>>

call_get_pin_for_uart ==
    /\ \E base_pin \in LookupPins, signal \in {"TX", "RX"},
          target \in {USART1, USART6} :
         ret' = [op |-> "get_pin_for_uart", base_pin |-> base_pin,
                 signal |-> signal, target |-> target,
                 val |-> get_pin_for_uart(pinmap, base_pin, signal, target)]
    /\ UNCHANGED <<bf_config, pinmap, errors, warnings, lines, pos>>

NextLookup ==
    \/ call_convert_pin_format
    \/ call_get_pin_for_spi_bus
    \/ call_get_pin_for_i2c_bus
    \/ call_get_pin_for_uart

SpecLookup == InitLookup /\ [][NextLookup]_vars

-----------------------------------------------------------------------------
(* Vocabulary of the properties *)

\* The physical-pin form of a logical pin, as the specification and the
\* tests give it: 'P', the letter, the number without its leading zero
\* (B04 -> PB4, A10 -> PA10).
PhysicalPinForm(bf_pin) ==
    <<"P", bf_pin[1]>>
        \o (IF bf_pin[2] = "0" THEN <<bf_pin[3]>> ELSE <<bf_pin[2], bf_pin[3]>>)

Range(q) == {q[i] : i \in 1..Len(q)}

\* What a call appended to an issue list.
Appended(old, new) == SubSeq(new, Len(old) + 1, Len(new))

\* The issues of a list that carry the resource identifier prefix + index.
IssuesOf(q, prefix, index) ==
    SelectSeq(q, LAMBDA e : e.resource = [prefix |-> prefix, index |-> index])

\* The capability records of a timer table for (pin, timer, af).
TimerRecords(pm, pin, timer, af) ==
    {tp \in Range(pm.timer_pins) : tp.pin = pin /\ tp.timer = timer /\ tp.af = af}

\* The table attests the pin for the signal on the target instance.
Attested(records, pin, signal, target) ==
    \E r \in Range(records) : r.pin = pin /\ r.signal = signal /\ r.bus = target

\* A pin token of a validated entry is base pin + ALT suffix of a record of
\* the signal and the instance.
TokenAttested(records, token, signal, target) ==
    \E r \in Range(records) :
        r.signal = signal /\ r.bus = target /\ token = r.pin \o r.alt_variant

\* The configuration declares a resource of the type for the index.
HasResource(cfg, resource_type, n) ==
    \E r \in Range(get_resources(cfg, resource_type)) : r.index = n

\* The MOTOR resources whose index no other MOTOR resource has.
SingleMotors(cfg) ==
    {m \in Range(get_motors(cfg)) :
        Cardinality({i \in 1..Len(get_motors(cfg)) :
                        get_motors(cfg)[i].index = m.index}) = 1}

-----------------------------------------------------------------------------
(* C1 *)

\* C1: after validate_motors, every MOTOR resource whose logical pin has a
\* TimerAssignment (T, a) and whose physical pin has a capability record
\* (pin, T, a) with channel c is in the returned list with the pin in
\* physical-pin form, timer T, af a and channel c; and no error or warning
\* is logged for it when the annotated channel is c.
C1_MotorValidated ==
    ret.op = "validate_motors" =>
        \A m \in Range(get_motors(bf_config)) :
            m.pin \in DOMAIN bf_config.timers =>
                LET ta == bf_config.timers[m.pin]
                    phys == PhysicalPinForm(m.pin)
                IN  \A tp \in TimerRecords(pinmap, phys, ta.timer, ta.af) :
                        /\ \E v \in Range(ret.val) :
                              /\ v.index = m.index
                              /\ v.pin_arduino = phys
                              /\ v.timer = ta.timer
                              /\ v.af = ta.af
                              /\ v.channel = tp.channel
                        /\ ta.channel = tp.channel =>
                              /\ IssuesOf(errors, "MOTOR_", m.index) = <<>>
                              /\ IssuesOf(warnings, "MOTOR_", m.index) = <<>>

-----------------------------------------------------------------------------
(* C2 *)

\* C2: a group with all required signals declared for index n is in the
\* list validate_spi_buses (validate_i2c_buses) returns if and only if the
\* table has, for every required signal, a record of the signal's physical
\* pin for SPIn (I2Cn); a group that is not returned has an error logged.
C2_BusValidatedIffAttested ==
    /\ ret.op = "validate_spi_buses" =>
         \A n \in Range(IndicesOf(bf_config, "SPI_SCK")) :
            LET pins == get_spi_pins(bf_config, n)
                target == <<"S", "P", "I">> \o IntToStr(n)
                ok == \A sg \in {"MOSI", "MISO", "SCLK"} :
                        Attested(pinmap.spi_pins, PhysicalPinForm(pins[sg]), sg, target)
            IN  pins # NoPins =>
                  /\ (\E v \in Range(ret.val) : v.bus_num = n) <=> ok
                  /\ ~ok => IssuesOf(errors, "SPI", n) # <<>>
    /\ ret.op = "validate_i2c_buses" =>
         \A n \in Range(IndicesOf(bf_config, "I2C_SCL")) :
            LET pins == get_i2c_pins(bf_config, n)
                target == <<"I", "2", "C">> \o IntToStr(n)
                ok == \A sg \in {"SCL", "SDA"} :
                        Attested(pinmap.i2c_pins, PhysicalPinForm(pins[sg]), sg, target)
            IN  pins # NoPins =>
                  /\ (\E v \in Range(ret.val) : v.bus_num = n) <=> ok
                  /\ ~ok => IssuesOf(errors, "I2C", n) # <<>>

-----------------------------------------------------------------------------
(* C3 *)

\* The names an instance numbered like the group can have.
NamesFromIndex(n) ==
    {<<"U", "A", "R", "T">> \o IntToStr(n), <<"U", "S", "A", "R", "T">> \o IntToStr(n)}

-----------------------------------------------------------------------------
(* C4 *)

\* C4: once the text is read, a pin described by one line `timer <pin>
\* AF<n>` and one annotation `# pin <pin>: <timer> CH<n>` has a single
\* TimerAssignment with the AF of the timer line and the timer name and
\* channel of the annotation, whichever of the two lines comes first.
C4_MergedInEitherOrder ==
    pos = Len(lines) =>
        \A i, j \in 1..Len(lines) :
            (/\ lines[i].kind = "timer"
             /\ lines[j].kind = "timer_comment"
             /\ lines[j].pin = lines[i].pin
             /\ \A k \in 1..Len(lines) :
                    (lines[k].kind \in {"timer", "timer_comment"}
                        /\ lines[k].pin = lines[i].pin) => k \in {i, j})
            => /\ lines[i].pin \in DOMAIN bf_config.timers
               /\ bf_config.timers[lines[i].pin] =
                    [pin |-> lines[i].pin, af |-> lines[i].af,
                     timer |-> lines[j].timer, channel |-> lines[j].channel]

-----------------------------------------------------------------------------
(* C5 *)

\* C5: a call of validate_spi_buses on a configuration where bus index n
\* has SPI_MOSI and SPI_MISO resources but no SPI_SCK resource returns no
\* entry for bus n and appends exactly one error citing incomplete pin
\* assignments for SPI n.
C5_MissingSckIsOneError ==
    [][validate_spi_buses =>
        \A n \in 1..9 :
            (/\ HasResource(bf_config, "SPI_MOSI", n)
             /\ HasResource(bf_config, "SPI_MISO", n)
             /\ ~HasResource(bf_config, "SPI_SCK", n))
            => /\ ~\E v \in Range(ret'.val) : v.bus_num = n
               /\ Len(SelectSeq(IssuesOf(Appended(errors, errors'), "SPI", n),
                        LAMBDA e : e.message.kind = "has incomplete pin assignments")) = 1
    ]_vars

-----------------------------------------------------------------------------
(* C6 *)

\* C6: a call of validate_motors on a motor whose annotated channel differs
\* from the channel of the matching capability record returns the motor
\* with the capability record's channel, appends exactly one warning for
\* that motor and appends no error for it.
C6_ChannelMismatchIsOneWarning ==
    [][validate_motors =>
        \A m \in SingleMotors(bf_config) :
            m.pin \in DOMAIN bf_config.timers =>
                LET ta == bf_config.timers[m.pin]
                IN  \A tp \in TimerRecords(pinmap, PhysicalPinForm(m.pin), ta.timer, ta.af) :
                        (ta.channel # NoneInt /\ ta.channel # tp.channel)
                        => /\ \E v \in Range(ret'.val) :
                                v.index = m.index /\ v.channel = tp.channel
                           /\ Len(IssuesOf(Appended(warnings, warnings'),
                                           "MOTOR_", m.index)) = 1
                           /\ IssuesOf(Appended(errors, errors'),
                                       "MOTOR_", m.index) = <<>>
    ]_vars

-----------------------------------------------------------------------------
(* C7 *)

\* C7: validate_all returns true exactly when the errors list is empty at
\* the end of the run, however many warnings there are.
C7_TrueIffNoErrors ==
    ret.op = "validate_all" => (ret.val <=> errors = <<>>)

\* validate_all has returned true with a warning logged.
C7_Witness ==
    ret.op = "validate_all" /\ ret.val /\ warnings # <<>>

-----------------------------------------------------------------------------
(* C8 *)

-----------------------------------------------------------------------------
(* C9 *)

\* The table a lookup reads.
RecordsOf(op) ==
    IF op = "get_pin_for_spi_bus" THEN pinmap.spi_pins
    ELSE IF op = "get_pin_for_i2c_bus" THEN pinmap.i2c_pins
    ELSE pinmap.uart_pins

\* C9: get_pin_for_spi_bus, get_pin_for_i2c_bus and get_pin_for_uart return
\* None exactly when no record of the base pin and signal has the target
\* instance; otherwise they return the base pin followed by the ALT suffix
\* of a record that has it, wherever that record stands in the table.
C9_RecordOfTargetSelected ==
    ret.op \in {"get_pin_for_spi_bus", "get_pin_for_i2c_bus", "get_pin_for_uart"} =>
        LET reach == {r \in Range(RecordsOf(ret.op)) :
                        /\ r.pin = ret.base_pin
                        /\ r.signal = ret.signal
                        /\ r.bus = ret.target}
        IN  /\ (ret.val = NonePin) <=> (reach = {})
            /\ reach # {} => \E r \in reach : ret.val = ret.base_pin \o r.alt_variant

\* get_pin_for_spi_bus has returned the ALT route of a pin whose first MOSI
\* record in the table is for another bus.
C9_Witness ==
    /\ ret.op = "get_pin_for_spi_bus"
    /\ ret.val = ret.base_pin \o <<"_", "A", "L", "T", "1">>
    /\ LET matching_pins ==
              SelectSeq(pinmap.spi_pins,
                  LAMBDA r : r.pin = ret.base_pin /\ r.signal = ret.signal)
       IN  Len(matching_pins) > 1 /\ matching_pins[1].bus # ret.target

-----------------------------------------------------------------------------
(* C10 *)

\* C10: convert_pin_format turns a logical pin of a letter L and a
\* two-digit number into 'P', L and the number without its leading zero,
\* with no separator (B04 gives PB4, A10 gives PA10).
C10_NoSeparator ==
    ret.op = "convert_pin_format" => ret.val = PhysicalPinForm(ret.bf_pin)

-----------------------------------------------------------------------------
(* validator.py: grouping *)

\* A grouping that keeps only the last motor of each timer.
group_motors_by_timer_last_only(motors) ==
    [t \in {motors[i].timer : i \in 1..Len(motors)} |->
        LET bank == SelectSeq(motors, LAMBDA m : m.timer = t)
        IN  <<bank[Len(bank)]>>]

\* A grouping that puts each motor at the front of its bank.
group_motors_by_timer_prepend(motors) ==
    [t \in {motors[i].timer : i \in 1..Len(motors)} |->
        LET bank == SelectSeq(motors, LAMBDA m : m.timer = t)
        IN  [i \in 1..Len(bank) |-> bank[Len(bank) + 1 - i]]]

\* ConfigValidator.group_motors_by_timer: the loop appends each motor, in
\* list order, to the bank of its timer, creating the bank when needed.
RECURSIVE group_motors_by_timer(_)
group_motors_by_timer(motors) ==
    IF motors = <<>> THEN EmptyDict
    ELSE LET timer_banks == group_motors_by_timer(SubSeq(motors, 1, Len(motors) - 1))
             motor == motors[Len(motors)]
             bank == IF motor.timer \in DOMAIN timer_banks
                     THEN timer_banks[motor.timer] ELSE <<>>
         IN  (motor.timer :> Append(bank, motor)) @@ timer_banks

\* A ValidatedMotor on pin A08.
ValidatedMotor(index, timer) ==
    [index |-> index, pin_bf |-> A08, pin_arduino |-> <<"P", "A", "8">>,
     timer |-> timer, channel |-> 1, af |-> 1]

\* The lists of validated motors the grouping is called with.
MotorLists ==
    LET Motors == {ValidatedMotor(i, t) : i \in 1..MaxMotorIndex, t \in {"TIM1", "TIM3"}}
    IN  UNION {[1..k -> Motors] : k \in 0..MaxMotors}

-----------------------------------------------------------------------------
(* The grouping, called on its own. *)

InitGroup ==
    /\ bf_config = EmptyConfig
    /\ pinmap = EmptyPinMap
    /\ errors = <<>>
    /\ warnings = <<>>
    /\ ret = [op |-> "__init__"]
    /\ lines = <<>>
    /\ pos = 0

\* The function reads nothing but its argument, so one call is followed
\* from each start.
call_group_motors_by_timer ==
    /\ ret.op = "__init__"
    /\ \E motors \in MotorLists :
         ret' = [op |-> "group_motors_by_timer", motors |-> motors,
                 val |-> group_motors_by_timer(motors)]
    /\ UNCHANGED <<bf_config, pinmap, errors, warnings, lines, pos>>

NextGroup == call_group_motors_by_timer

SpecGroup == InitGroup /\ [][NextGroup]_vars

-----------------------------------------------------------------------------
(* C11 *)

\* A sequence of motors is in ascending order of logical index.
AscendingByIndex(q) == \A i, j \in 1..Len(q) : i < j => q[i].index <= q[j].index

\* q is p with some elements left out, the others in the order of p.
RECURSIVE IsSubsequence(_, _)
IsSubsequence(q, p) ==
    IF q = <<>> THEN TRUE
    ELSE IF p = <<>> THEN FALSE
    ELSE IF Head(q) = Head(p) THEN IsSubsequence(Tail(q), Tail(p))
    ELSE IsSubsequence(q, Tail(p))

-----------------------------------------------------------------------------
(* C12 *)

\* How many times x stands in q.
Count(q, x) == Cardinality({i \in 1..Len(q) : q[i] = x})

\* The number of assignments the banks hold together.
RECURSIVE SumOfLengths(_, _)
SumOfLengths(banks, keys) ==
    IF keys = {} THEN 0
    ELSE LET k == CHOOSE x \in keys : TRUE
         IN  Len(banks[k]) + SumOfLengths(banks, keys \ {k})

\* C12: group_motors_by_timer partitions its input: every input assignment
\* is in the group keyed by its own timer name as many times as in the
\* input and in no other group, every member of a group has the group's
\* timer, no group is empty, and the groups together hold as many
\* assignments as the input list.
C12_GroupsPartitionInput ==
    ret.op = "group_motors_by_timer" =>
        /\ \A i \in 1..Len(ret.motors) :
              /\ ret.motors[i].timer \in DOMAIN ret.val
              /\ \A t \in DOMAIN ret.val :
                    Count(ret.val[t], ret.motors[i]) =
                        IF t = ret.motors[i].timer
                        THEN Count(ret.motors, ret.motors[i]) ELSE 0
        /\ \A t \in DOMAIN ret.val :
              /\ ret.val[t] # <<>>
              /\ \A i \in 1..Len(ret.val[t]) : ret.val[t][i].timer = t
        /\ SumOfLengths(ret.val, DOMAIN ret.val) = Len(ret.motors)

\* The grouping has split a list of three motors into two groups.
C12_Witness ==
    /\ ret.op = "group_motors_by_timer"
    /\ Len(ret.motors) = 3
    /\ Cardinality(DOMAIN ret.val) = 2

-----------------------------------------------------------------------------
(* C13 *)

\* C13: a validate_all call that follows a validate_all call on the same
\* validator ends with the same errors list, the same warnings list and
\* the same result; nothing of the earlier run is carried over.
C13_SecondRunIdentical ==
    [][(validate_all /\ ret.op = "validate_all")
        => (errors' = errors /\ warnings' = warnings /\ ret' = ret)]_vars

\* validate_all has run and has logged both an error and a warning, which a
\* further run would double if the lists were not cleared.
C13_Witness ==
    ret.op = "validate_all" /\ errors # <<>> /\ warnings # <<>>

-----------------------------------------------------------------------------
(* C14 *)

\* The resource types a group is declared with, by identifier prefix.
TypesOfGroup(prefix) ==
    IF prefix = "MOTOR_" THEN {"MOTOR"}
    ELSE IF prefix = "SPI" THEN {"SPI_MOSI", "SPI_MISO", "SPI_SCK"}
    ELSE IF prefix = "I2C" THEN {"I2C_SCL", "I2C_SDA"}
    ELSE {"SERIAL_TX", "SERIAL_RX"}

\* The groups a configuration declares: identifier prefix and index.
Groups(cfg) ==
    {g \in [prefix : {"MOTOR_", "SPI", "I2C", "UART"}, index : 1..9] :
        \E t \in TypesOfGroup(g.prefix) : HasResource(cfg, t, g.index)}

\* The configuration with the resource lines of one group left out.
WithoutGroup(cfg, g) ==
    [cfg EXCEPT !.resources =
        [t \in DOMAIN cfg.resources |->
            IF t \in TypesOfGroup(g.prefix)
            THEN SelectSeq(cfg.resources[t], LAMBDA r : r.index # g.index)
            ELSE cfg.resources[t]]]

\* The entries of a returned list that belong to index n.
EntriesOf(validated, n) ==
    SelectSeq(validated,
        LAMBDA v : (IF "index" \in DOMAIN v THEN v.index
                    ELSE IF "bus_num" \in DOMAIN v THEN v.bus_num
                    ELSE v.uart_num) = n)

\* C14: a group that fails resolution does not stop the run: after
\* validate_all, the errors and warnings of every other motor, SPI, I2C and
\* UART group are those of the run on the configuration without the failing
\* group, and so are the entries each validate_* call returns for the other
\* groups.
C14_FailingGroupLeavesOthersAlone ==
    /\ ret.op = "validate_all" =>
         \A g \in Groups(bf_config) :
            IssuesOf(errors, g.prefix, g.index) # <<>> =>
                LET r == validate_all_run(WithoutGroup(bf_config, g), pinmap)
                IN  \A h \in Groups(bf_config) \ {g} :
                        /\ IssuesOf(errors, h.prefix, h.index)
                              = IssuesOf(r.errors, h.prefix, h.index)
                        /\ IssuesOf(warnings, h.prefix, h.index)
                              = IssuesOf(r.warnings, h.prefix, h.index)
    /\ ret.op \in {"validate_motors", "validate_spi_buses",
                   "validate_i2c_buses", "validate_uarts"} =>
         LET p == IF ret.op = "validate_motors" THEN "MOTOR_"
                  ELSE IF ret.op = "validate_spi_buses" THEN "SPI"
                  ELSE IF ret.op = "validate_i2c_buses" THEN "I2C" ELSE "UART"
         IN  \A g \in Groups(bf_config) :
                (g.prefix = p /\ IssuesOf(errors, g.prefix, g.index) # <<>>) =>
                    LET cfg == WithoutGroup(bf_config, g)
                        r == IF p = "MOTOR_" THEN validate_motors_run(cfg, pinmap)
                             ELSE IF p = "SPI" THEN validate_spi_buses_run(cfg, pinmap)
                             ELSE IF p = "I2C" THEN validate_i2c_buses_run(cfg, pinmap)
                             ELSE validate_uarts_run(cfg, pinmap)
                    IN  \A n \in 1..9 :
                            n # g.index =>
                                EntriesOf(ret.val, n) = EntriesOf(r.validated, n)

\* validate_all has logged an error for one motor and an error for another
\* motor.
C14_Witness ==
    /\ ret.op = "validate_all"
    /\ \E g, h \in Groups(bf_config) :
          /\ g # h
          /\ IssuesOf(errors, g.prefix, g.index) # <<>>
          /\ g.prefix = "MOTOR_" /\ h.prefix = "MOTOR_"
          /\ IssuesOf(errors, h.prefix, h.index) # <<>>

-----------------------------------------------------------------------------
(* C15 *)

\* How many resources of the type the configuration declares for index n.
CountResources(cfg, resource_type, n) ==
    Cardinality({i \in 1..Len(get_resources(cfg, resource_type)) :
                    get_resources(cfg, resource_type)[i].index = n})

\* UART index n has a SERIAL_TX resource and no SERIAL_RX resource.
TxOnly(cfg, n) ==
    CountResources(cfg, "SERIAL_TX", n) = 1 /\ ~HasResource(cfg, "SERIAL_RX", n)

\* Index n has some, but not all, of the resources of a bus, none twice.
Incomplete(cfg, types, n) ==
    /\ \E t \in types : HasResource(cfg, t, n)
    /\ \E t \in types : ~HasResource(cfg, t, n)
    /\ \A t \in types : CountResources(cfg, t, n) <= 1

\* C15: a UART index with a SERIAL_TX resource but no SERIAL_RX resource
\* gets no validated entry, exactly one warning and no error from
\* validate_uarts; validate_all logs no error for it and accepts a
\* configuration that declares nothing else; an I2C or SPI index that has
\* some of its signals declared but not all of them gets no entry and
\* exactly one error.
C15_TxOnlyWarnsBusIncompleteErrs ==
    [][/\ validate_uarts =>
            \A n \in 1..9 : TxOnly(bf_config, n) =>
                /\ EntriesOf(ret'.val, n) = <<>>
                /\ Len(IssuesOf(Appended(warnings, warnings'), "UART", n)) = 1
                /\ IssuesOf(Appended(errors, errors'), "UART", n) = <<>>
       /\ validate_all =>
            /\ \A n \in 1..9 : TxOnly(bf_config, n) =>
                    IssuesOf(errors', "UART", n) = <<>>
            /\ (\A g \in Groups(bf_config) :
                    g.prefix = "UART" /\ TxOnly(bf_config, g.index)) => ret'.val
       /\ validate_i2c_buses =>
            \A n \in 1..9 :
                Incomplete(bf_config, {"I2C_SCL", "I2C_SDA"}, n) =>
                    /\ EntriesOf(ret'.val, n) = <<>>
                    /\ Len(IssuesOf(Appended(errors, errors'), "I2C", n)) = 1
       /\ validate_spi_buses =>
            \A n \in 1..9 :
                Incomplete(bf_config, {"SPI_MOSI", "SPI_MISO", "SPI_SCK"}, n) =>
                    /\ EntriesOf(ret'.val, n) = <<>>
                    /\ Len(IssuesOf(Appended(errors, errors'), "SPI", n)) = 1
    ]_vars

-----
(* C16 *)

\* C16: a call of validate_motors on a MOTOR resource whose logical pin has
\* no TimerAssignment appends exactly one error for it, the error says that
\* there is no timer assignment and carries the motor's resource identifier
\* and pin, and the motor is not in the returned list.
C16_NoTimerAssignmentIsOneError ==
    [][validate_motors =>
        \A m \in SingleMotors(bf_config) :
            m.pin \notin DOMAIN bf_config.timers =>
                LET errs == IssuesOf(Appended(errors, errors'), "MOTOR_", m.index)
                IN  /\ EntriesOf(ret'.val, m.index) = <<>>
                    /\ Len(errs) = 1
                    /\ errs[1].message.kind = "has no timer assignment"
                    /\ errs[1].pin = m.pin
                    /\ IssuesOf(Appended(warnings, warnings'), "MOTOR_", m.index) = <<>>
    ]_vars

\* validate_motors has rejected a motor whose pin has no TimerAssignment.
C16_Witness ==
    /\ ret.op = "validate_motors"
    /\ ret.val = <<>>
    /\ \E m \in SingleMotors(bf_config) :
          /\ m.pin \notin DOMAIN bf_config.timers
          /\ \E e \in Range(IssuesOf(errors, "MOTOR_", m.index)) :
                e.message.kind = "has no timer assignment" /\ e.pin = m.pin

-----------------------------------------------------------------------------
(* C17 *)

\* C17: a call of validate_motors on a motor whose physical pin has no
\* capability record for the asserted timer name and AF code appends
\* exactly one error for it and does not return it; a record of the pin
\* for the timer on another AF, or no record of the pin at all, does not
\* change that.
C17_NoCapabilityIsOneError ==
    [][validate_motors =>
        \A m \in SingleMotors(bf_config) :
            (/\ m.pin \in DOMAIN bf_config.timers
             /\ TimerRecords(pinmap, PhysicalPinForm(m.pin),
                    bf_config.timers[m.pin].timer, bf_config.timers[m.pin].af) = {})
            => LET errs == IssuesOf(Appended(errors, errors'), "MOTOR_", m.index)
               IN  /\ EntriesOf(ret'.val, m.index) = <<>>
                   /\ Len(errs) = 1
                   /\ errs[1].message.kind = "does not support"
    ]_vars

\* validate_motors has rejected a motor whose pin the table knows for the
\* asserted timer, on another AF only.
C17_Witness ==
    /\ ret.op = "validate_motors"
    /\ \E m \in SingleMotors(bf_config) :
          /\ m.pin \in DOMAIN bf_config.timers
          /\ LET ta == bf_config.timers[m.pin]
             IN  /\ TimerRecords(pinmap, PhysicalPinForm(m.pin), ta.timer, ta.af) = {}
                 /\ \E tp \in Range(pinmap.timer_pins) :
                       /\ tp.pin = PhysicalPinForm(m.pin)
                       /\ tp.timer = ta.timer
                       /\ tp.af # ta.af
          /\ \E e \in Range(IssuesOf(errors, "MOTOR_", m.index)) :
                e.message.kind = "does not support"

-----------------------------------------------------------------------------
(* peripheral_pins.py: bus checks and bus lookups *)

\* The body shared by validate_spi_bus, validate_i2c_bus and validate_uart:
\* every signal of the dict has a record of its pin for the bus.
validate_bus(records, pins, bus) ==
    \A signal \in DOMAIN pins :
        \E i \in 1..Len(records) :
            /\ records[i].pin = pins[signal]
            /\ records[i].bus = bus
            /\ records[i].signal = signal

validate_spi_bus(pm, pins, bus) == validate_bus(pm.spi_pins, pins, bus)

validate_i2c_bus(pm, pins, bus) == validate_bus(pm.i2c_pins, pins, bus)

validate_uart(pm, pins, uart) == validate_bus(pm.uart_pins, pins, uart)

\* PeripheralPinMap.get_spi_bus: the bus of the first record of the pin and
\* signal, or None.
get_spi_bus(pm, pin, signal) ==
    LET sps == pm.spi_pins
        hit == {i \in 1..Len(sps) : sps[i].pin = pin /\ sps[i].signal = signal}
    IN  IF hit = {} THEN NonePin
        ELSE sps[CHOOSE i \in hit : \A j \in hit : i <= j].bus

\* PeripheralPinMap.get_i2c_bus
get_i2c_bus(pm, pin, signal) ==
    LET ips == pm.i2c_pins
        hit == {i \in 1..Len(ips) : ips[i].pin = pin /\ ips[i].signal = signal}
    IN  IF hit = {} THEN NonePin
        ELSE ips[CHOOSE i \in hit : \A j \in hit : i <= j].bus

-----------------------------------------------------------------------------
(* The capability parser and the lookups on what it parsed: a
   PeripheralPins.c is read, then a lookup is called. *)

\* The file contents: the sample file, in either order, with any of its
\* PinMap arrays missing.
Contents ==
    {[n \in names |-> full[n]] :
        full \in {SampleContent, ReversedContent},
        names \in SUBSET DOMAIN SampleContent}

\* Pin arguments of the lookups: PinName form and macro form.
TimerCallPins ==
    {PA_8, PB_4, <<"P", "A", "8">>, <<"P", "B", "4">>, PA_7,
     <<"P", "B", "4">> \o ALT \o <<"1">>}

InitPinMap ==
    /\ bf_config = EmptyConfig
    /\ pinmap = EmptyPinMap
    /\ errors = <<>>
    /\ warnings = <<>>
    /\ ret = [op |-> "__init__"]
    /\ lines = <<>>
    /\ pos = 0

\* PeripheralPinMap.__init__ on a file that exists: _parse fills the lists.
PeripheralPinMap_parse ==
    /\ ret.op = "__init__"
    /\ \E content \in Contents :
         /\ pinmap' = PeripheralPinMap(content)
         /\ ret' = [op |-> "_parse", content |-> content]
    /\ UNCHANGED <<bf_config, errors, warnings, lines, pos>>

call_validate_timer ==
    /\ ret.op = "_parse"
    /\ \E pin \in TimerCallPins, timer \in {"TIM1", "TIM3"}, af \in {1, 2} :
         ret' = [op |-> "validate_timer", content |-> ret.content,
                 pin |-> pin, timer |-> timer, af |-> af,
                 val |-> validate_timer(pinmap, pin, timer, af)]
    /\ UNCHANGED <<bf_config, pinmap, errors, warnings, lines, pos>>

call_validate_spi_bus ==
    /\ ret.op = "_parse"
    /\ \E mosi \in {PA_7, PA7, PB_5}, miso \in {PA_6, PA6}, sclk \in {PA_5, PA_6},
          bus \in {SPI1, SPI3} :
         LET pins == [MOSI |-> mosi, MISO |-> miso, SCLK |-> sclk]
         IN  ret' = [op |-> "validate_spi_bus", content |-> ret.content,
                     pins |-> pins, bus |-> bus,
                     val |-> validate_spi_bus(pinmap, pins, bus)]
    /\ UNCHANGED <<bf_config, pinmap, errors, warnings, lines, pos>>

call_validate_i2c_bus ==
    /\ ret.op = "_parse"
    /\ \E scl \in {PB_8, PB8, PB_9}, sda \in {PB_9, PB9}, bus \in {I2C1, SPI1} :
         LET pins == [SCL |-> scl, SDA |-> sda]
         IN  ret' = [op |-> "validate_i2c_bus", content |-> ret.content,
                     pins |-> pins, bus |-> bus,
                     val |-> validate_i2c_bus(pinmap, pins, bus)]
    /\ UNCHANGED <<bf_config, pinmap, errors, warnings, lines, pos>>

call_validate_uart ==
    /\ ret.op = "_parse"
    /\ \E tx \in {PB_6, PB6, PB_7}, rx \in {PB_7, PB7}, uart \in {USART1, USART6} :
         LET pins == [TX |-> tx, RX |-> rx]
         IN  ret' = [op |-> "validate_uart", content |-> ret.content,
                     pins |-> pins, bus |-> uart,
                     val |-> validate_uart(pinmap, pins, uart)]
    /\ UNCHANGED <<bf_config, pinmap, errors, warnings, lines, pos>>

call_get_spi_bus ==
    /\ ret.op = "_parse"
    /\ \E pin \in {PA_7, PA7, PB_5, PB5, PB_9}, signal \in {"MOSI", "MISO", "SCLK"} :
         ret' = [op |-> "get_spi_bus", content |-> ret.content,
                 pin |-> pin, signal |-> signal,
                 val |-> get_spi_bus(pinmap, pin, signal)]
    /\ UNCHANGED <<bf_config, pinmap, errors, warnings, lines, pos>>

call_get_i2c_bus ==
    /\ ret.op = "_parse"
    /\ \E pin \in {PB_8, PB8, PB_9, PB9, PA_7}, signal \in {"SCL", "SDA"} :
         ret' = [op |-> "get_i2c_bus", content |-> ret.content,
                 pin |-> pin, signal |-> signal,
                 val |-> get_i2c_bus(pinmap, pin, signal)]
    /\ UNCHANGED <<bf_config, pinmap, errors, warnings, lines, pos>>

call_get_uart ==
    /\ ret.op = "_parse"
    /\ \E pin \in {PB_6, PB6, PB_7, PB7, PA_7}, signal \in {"TX", "RX"} :
         ret' = [op |-> "get_uart", content |-> ret.content,
                 pin |-> pin, signal |-> signal,
                 val |-> get_uart(pinmap, pin, signal)]
    /\ UNCHANGED <<bf_config, pinmap, errors, warnings, lines, pos>>

NextPinMap ==
    \/ PeripheralPinMap_parse
    \/ call_validate_timer
    \/ call_validate_spi_bus
    \/ call_validate_i2c_bus
    \/ call_validate_uart
    \/ call_get_spi_bus
    \/ call_get_i2c_bus
    \/ call_get_uart

SpecPinMap == InitPinMap /\ [][NextPinMap]_vars

-----------------------------------------------------------------------------
(* Vocabulary of the properties on the capability parser *)

\* The PinMap array that holds the entries of a signal.
SectionOf ==
    [MOSI |-> "PinMap_SPI_MOSI", MISO |-> "PinMap_SPI_MISO", SCLK |-> "PinMap_SPI_SCLK",
     SDA |-> "PinMap_I2C_SDA", SCL |-> "PinMap_I2C_SCL",
     TX |-> "PinMap_UART_TX", RX |-> "PinMap_UART_RX"]

\* The entries of an array of the file, none when the array is missing.
EntriesIn(content, map_name) ==
    IF map_name \in DOMAIN content THEN content[map_name] ELSE <<>>

\* The file has an entry {pin, periph, ...} in the array of the signal.
HasEntry(content, signal, pin, periph) ==
    \E e \in Range(EntriesIn(content, SectionOf[signal])) :
        e.pin = pin /\ e.periph = periph

\* The records of a parsed map that come from the array of a signal.
RecordsOfSignal(pm, signal) ==
    SelectSeq(pm.spi_pins \o pm.i2c_pins \o pm.uart_pins,
        LAMBDA r : r.signal = signal)

\* A PinName token without the underscore after the port letter:
\* PB_5_ALT1 is the route PB5_ALT1.
RouteName(token) == <<token[1], token[2]>> \o SubSeq(token, 4, Len(token))

-----------------------------------------------------------------------------
(* C18 *)

\* C18: the lookups accept pins in PinName form: for an entry {pin, T, AF a,
\* channel c} of PinMap_TIM, validate_timer(pin, T, a) returns c;
\* validate_spi_bus, validate_i2c_bus and validate_uart return true when
\* the file has an entry of each pin for the bus under its signal;
\* get_spi_bus, get_i2c_bus and get_uart find a pin that has an entry
\* under the signal; and a timer and AF that no entry has give None.
C18_PinNameFormAccepted ==
    /\ ret.op = "validate_timer" =>
         /\ \A e \in Range(EntriesIn(ret.content, "PinMap_TIM")) :
               (e.pin = ret.pin /\ e.periph = ret.timer /\ e.af = ret.af)
                   => ret.val = e.channel
         /\ (\A e \in Range(EntriesIn(ret.content, "PinMap_TIM")) :
               ~(e.periph = ret.timer /\ e.af = ret.af)) => ret.val = NoneInt
    /\ ret.op \in {"validate_spi_bus", "validate_i2c_bus", "validate_uart"} =>
         ((\A signal \in DOMAIN ret.pins :
               HasEntry(ret.content, signal, ret.pins[signal], ret.bus))
            => ret.val)
    /\ ret.op \in {"get_spi_bus", "get_i2c_bus", "get_uart"} =>
         \A e \in Range(EntriesIn(ret.content, SectionOf[ret.signal])) :
            e.pin = ret.pin =>
                \E f \in Range(EntriesIn(ret.content, SectionOf[ret.signal])) :
                    f.pin = ret.pin /\ ret.val = f.periph

-----------------------------------------------------------------------------
(* C19 *)

-----------------------------------------------------------------------------
(* C20 *)

\* C20: when an array is missing from the file, the parse ends all the
\* same, the records of that kind (for PinMap_TIM) or of that signal are
\* none, and the records of every array that is there are those parsed
\* from the file that has all the arrays.
C20_MissingSectionIsEmptyList ==
    ret.op = "_parse" =>
        \A full \in {SampleContent, ReversedContent} :
            ret.content = [n \in DOMAIN ret.content |-> full[n]] =>
                /\ pinmap.timer_pins =
                      IF "PinMap_TIM" \in DOMAIN ret.content
                      THEN PeripheralPinMap(full).timer_pins ELSE <<>>
                /\ \A signal \in DOMAIN SectionOf :
                      RecordsOfSignal(pinmap, signal) =
                          IF SectionOf[signal] \in DOMAIN ret.content
                          THEN RecordsOfSignal(PeripheralPinMap(full), signal)
                          ELSE <<>>

\* A file without PinMap_SPI_MOSI and without PinMap_I2C_SDA has been
\* parsed, and the records of PinMap_SPI_MISO and PinMap_I2C_SCL are there.
C20_Witness ==
    /\ ret.op = "_parse"
    /\ "PinMap_SPI_MOSI" \notin DOMAIN ret.content
    /\ "PinMap_I2C_SDA" \notin DOMAIN ret.content
    /\ RecordsOfSignal(pinmap, "MOSI") = <<>>
    /\ RecordsOfSignal(pinmap, "MISO") # <<>>
    /\ RecordsOfSignal(pinmap, "SCL") # <<>>

-----------------------------------------------------------------------------
(* The pin groups of a configuration: a text of resource lines for two
   indices is parsed, and get_spi_pins, get_i2c_pins or get_uart_pins is
   called on it. *)

\* Longest text of resource lines.
MaxPinLines == 4

\* Resource lines of the bus signals, for index 1 and, with other pins,
\* for index 2.
PinLines ==
    {ResourceLine("SPI_MOSI", 1, A07),
     ResourceLine("SPI_MISO", 1, A06),
     ResourceLine("SPI_SCK", 1, A05),
     ResourceLine("SPI_MOSI", 2, <<"B", "0", "5">>),
     ResourceLine("I2C_SCL", 1, B08),
     ResourceLine("I2C_SDA", 1, B09),
     ResourceLine("I2C_SDA", 2, <<"B", "0", "3">>),
     ResourceLine("SERIAL_TX", 1, B06),
     ResourceLine("SERIAL_RX", 1, B07),
     ResourceLine("SERIAL_RX", 2, <<"A", "0", "3">>)}

PinTexts == UNION {[1..k -> PinLines] : k \in 0..MaxPinLines}

InitGetPins ==
    /\ \E text \in PinTexts : bf_config = _parse(EmptyConfig, text)
    /\ pinmap = EmptyPinMap
    /\ errors = <<>>
    /\ warnings = <<>>
    /\ ret = [op |-> "__init__"]
    /\ lines = <<>>
    /\ pos = 0

call_get_spi_pins ==
    /\ ret.op = "__init__"
    /\ \E n \in 1..2 :
         ret' = [op |-> "get_spi_pins", n |-> n, val |-> get_spi_pins(bf_config, n)]
    /\ UNCHANGED <<bf_config, pinmap, errors, warnings, lines, pos>>

call_get_i2c_pins ==
    /\ ret.op = "__init__"
    /\ \E n \in 1..2 :
         ret' = [op |-> "get_i2c_pins", n |-> n, val |-> get_i2c_pins(bf_config, n)]
    /\ UNCHANGED <<bf_config, pinmap, errors, warnings, lines, pos>>

call_get_uart_pins ==
    /\ ret.op = "__init__"
    /\ \E n \in 1..2 :
         ret' = [op |-> "get_uart_pins", n |-> n, val |-> get_uart_pins(bf_config, n)]
    /\ UNCHANGED <<bf_config, pinmap, errors, warnings, lines, pos>>

NextGetPins ==
    \/ call_get_spi_pins
    \/ call_get_i2c_pins
    \/ call_get_uart_pins

SpecGetPins == InitGetPins /\ [][NextGetPins]_vars

-----------------------------------------------------------------------------
(* C21 *)

\* The resource type of each signal of the group a get_*_pins call reads.
SignalTypes(op) ==
    CASE op = "get_spi_pins" ->
            [MOSI |-> "SPI_MOSI", MISO |-> "SPI_MISO", SCLK |-> "SPI_SCK"]
      [] op = "get_i2c_pins" -> [SCL |-> "I2C_SCL", SDA |-> "I2C_SDA"]
      [] op = "get_uart_pins" -> [TX |-> "SERIAL_TX", RX |-> "SERIAL_RX"]

\* C21: get_spi_pins(n), get_i2c_pins(n) and get_uart_pins(n) return the
\* pins of index n when every signal of the group has a resource of index
\* n, each pin that of a resource of its signal and of index n, and return
\* None otherwise, whatever the resources of the other indices.
C21_GroupOnlyWhenComplete ==
    ret.op \in {"get_spi_pins", "get_i2c_pins", "get_uart_pins"} =>
        LET types == SignalTypes(ret.op)
        IN  IF \A s \in DOMAIN types : HasResource(bf_config, types[s], ret.n)
            THEN /\ ret.val # NoPins
                 /\ DOMAIN ret.val = DOMAIN types
                 /\ \A s \in DOMAIN types :
                       \E r \in Range(get_resources(bf_config, types[s])) :
                           r.index = ret.n /\ r.pin = ret.val[s]
            ELSE ret.val = NoPins

\* get_spi_pins(1) has returned the three pins of a configuration that
\* also declares SPI_MOSI 2, and get_spi_pins(2) would find MOSI alone.
C21_Witness ==
    /\ ret.op = "get_spi_pins"
    /\ ret.n = 1
    /\ ret.val # NoPins
    /\ HasResource(bf_config, "SPI_MOSI", 2)
    /\ ~HasResource(bf_config, "SPI_SCK", 2)

-----------------------------------------------------------------------------
(* betaflight_config.py: the whole loop of _parse.  A line that one of the
   regular expressions RESOURCE, TIMER, TIMER_COMMENT, DMA, FEATURE, SETTING
   matches is the record of the groups it captures; every other line is its
   text, which _parse strips and _parse_header, _parse_define and
   _parse_board_info take apart with startswith, `in` and split. *)

\* A line that none of the six regular expressions matches.
RawLine(text) == [kind |-> "text", text |-> text]
\* dma [pin] <target> <n> <n>: is_pin tells whether group 1 matched.
DmaLine(is_pin, target, n3, n4) ==
    [kind |-> "dma", is_pin |-> is_pin, target |-> target, n3 |-> n3, n4 |-> n4]
\* feature <TYPE>
FeatureLine(name) == [kind |-> "feature", name |-> name]
\* set <key> = <value>
SettingLine(key, value) == [kind |-> "set", key |-> key, value |-> value]

\* str.isspace() on the characters the sample lines hold.
Whitespace == {" ", "\t"}

\* The characters of \w.
WordChars == Digits \cup {"a", "b", "c", "d", "e", "f", "g", "h", "i", "j", "k", "l", "m", "n", "o", "p", "q", "r", "s", "t", "u", "v", "w", "x", "y", "z", "A", "B", "C", "D", "E", "F", "G", "H", "I", "J", "K", "L", "M", "N", "O", "P", "Q", "R", "S", "T", "U", "V", "W", "X", "Y", "Z", "_"}

\* s.strip()
RECURSIVE Strip(_)
Strip(s) ==
    IF s = <<>> THEN s
    ELSE IF s[1] \in Whitespace THEN Strip(Tail(s))
    ELSE IF s[Len(s)] \in Whitespace THEN Strip(SubSeq(s, 1, Len(s) - 1))
    ELSE s

\* s.startswith(prefix)
StartsWith(s, prefix) ==
    Len(s) >= Len(prefix) /\ SubSeq(s, 1, Len(prefix)) = prefix

\* s.split(): the runs of characters that are not whitespace.
RECURSIVE SplitWords(_)
SplitWords(s) ==
    IF s = <<>> THEN <<>>
    ELSE IF s[1] \in Whitespace THEN SplitWords(Tail(s))
    ELSE LET ends == {i \in 1..Len(s) : s[i] \in Whitespace}
             k == IF ends = {} THEN Len(s) + 1
                  ELSE CHOOSE i \in ends : \A j \in ends : i <= j
         IN  <<SubSeq(s, 1, k - 1)>> \o SplitWords(SubSeq(s, k, Len(s)))

STM32 == <<"S", "T", "M", "3", "2">>
Betaflight == <<"B", "e", "t", "a", "f", "l", "i", "g", "h", "t">>
HashDefine == <<"#", "d", "e", "f", "i", "n", "e">>
board_name == <<"b", "o", "a", "r", "d", "_", "n", "a", "m", "e">>
manufacturer_id == <<"m", "a", "n", "u", "f", "a", "c", "t", "u", "r", "e", "r", "_", "i", "d">>

\* Patterns.MCU_TYPE.search(s) from index i on: the first 'STM32' that a
\* word character follows, with all the word characters after it; None
\* when there is none.
RECURSIVE MCU_TYPE_search(_, _)
MCU_TYPE_search(s, i) ==
    LET k == Find(s, STM32, i)
    IN  IF k = 0 THEN NonePin
        ELSE IF k + 5 <= Len(s) /\ s[k + 5] \in WordChars
        THEN LET stops == {j \in (k + 5)..Len(s) : s[j] \notin WordChars}
                 e == IF stops = {} THEN Len(s)
                      ELSE (CHOOSE j \in stops : \A h \in stops : j <= h) - 1
             IN  SubSeq(s, k, e)
        ELSE MCU_TYPE_search(s, k + 1)

\* BetaflightConfig.__init__ before _parse, with every field.
EmptyModel ==
    [mcu_type |-> NonePin, board_name |-> NonePin, manufacturer_id |-> NonePin,
     defines |-> <<>>, resources |-> EmptyDict, timers |-> EmptyDict,
     dma |-> EmptyDict, features |-> <<>>, settings |-> EmptyDict]

\* BetaflightConfig._parse_header
_parse_header(cfg, line) ==
    IF line.kind = "text" /\ StartsWith(Strip(line.text), <<"#">>)
            /\ Contains(line.text, Betaflight)
            /\ MCU_TYPE_search(Strip(line.text), 1) # NonePin
    THEN [cfg EXCEPT !.mcu_type = MCU_TYPE_search(Strip(line.text), 1)]
    ELSE cfg

\* BetaflightConfig._parse_define
_parse_define(cfg, line) ==
    IF line.kind = "text" /\ StartsWith(Strip(line.text), HashDefine)
    THEN [cfg EXCEPT !.defines = Append(@, Strip(line.text))]
    ELSE cfg

\* None where a ConfigModel is expected: line.split()[1] raised IndexError.
IndexError == [raised |-> "IndexError"]

\* BetaflightConfig._parse_board_info
_parse_board_info(cfg, line) ==
    IF line.kind # "text" THEN cfg
    ELSE LET text == Strip(line.text)
             words == SplitWords(text)
         IN  IF StartsWith(text, board_name)
             THEN IF Len(words) < 2 THEN IndexError
                  ELSE [cfg EXCEPT !.board_name = words[2]]
             ELSE IF StartsWith(text, manufacturer_id)
             THEN IF Len(words) < 2 THEN IndexError
                  ELSE [cfg EXCEPT !.manufacturer_id = words[2]]
             ELSE cfg

\* BetaflightConfig._parse_dma
_parse_dma(cfg, line) ==
    IF line.kind # "dma" THEN cfg
    ELSE LET target == IF line.is_pin THEN line.target
                       ELSE line.target \o <<"_">> \o IntToStr(line.n3)
             stream == IF line.is_pin THEN line.n3 ELSE line.n4
         IN  [cfg EXCEPT !.dma =
                (target :> [target |-> target, stream |-> stream,
                            channel |-> NoneInt]) @@ cfg.dma]

\* BetaflightConfig._parse_feature
_parse_feature(cfg, line) ==
    IF line.kind = "feature"
    THEN [cfg EXCEPT !.features = Append(@, line.name)]
    ELSE cfg

\* BetaflightConfig._parse_setting
_parse_setting(cfg, line) ==
    IF line.kind = "set"
    THEN [cfg EXCEPT !.settings = (line.key :> line.value) @@ cfg.settings]
    ELSE cfg

\* The body of the loop of BetaflightConfig._parse for one line: the
\* ConfigModel after it, or IndexError when _parse_board_info raised.
_parse_line(cfg, line) ==
    IF line.kind = "text" /\ Strip(line.text) = <<>> THEN cfg
    ELSE LET info == _parse_board_info(
                        _parse_define(_parse_header(cfg, line), line), line)
         IN  IF info = IndexError THEN IndexError
             ELSE _parse_setting(_parse_feature(_parse_dma(
                    _parse_timer(_parse_resource(info, line), line),
                    line), line), line)

\* Lines of the shapes the parser knows.
ShapedLines ==
    {RawLine(<<"#", " ", "B", "e", "t", "a", "f", "l", "i", "g", "h", "t", " ", "/", " ", "S", "T", "M", "3", "2", "F", "4", "0", "5", " ", "(", "S", "4", "0", "5", ")">>),
     RawLine(<<"#", "d", "e", "f", "i", "n", "e", " ", "U", "S", "E", "_", "A", "C", "C">>),
     RawLine(<<"b", "o", "a", "r", "d", "_", "n", "a", "m", "e", " ", "J", "H", "E", "F", "4", "0", "5">>),
     RawLine(<<"m", "a", "n", "u", "f", "a", "c", "t", "u", "r", "e", "r", "_", "i", "d", " ", "J", "H", "E", "F">>),
     ResourceLine("MOTOR", 1, A08),
     TimerLine(A08, 1),
     TimerComment(A08, "TIM1", 1),
     DmaLine(FALSE, <<"A", "D", "C">>, 1, 1),
     FeatureLine("OSD"),
     SettingLine("gyro_1_spibus", "1")}

\* Blank lines and lines of no shape the parser knows: an empty line, a
\* line of spaces, a section comment, an unknown directive, and the
\* directive board_name without its token.
OtherLines ==
    {RawLine(<<>>),
     RawLine(<<" ", " ">>),
     RawLine(<<"#", " ", "r", "e", "s", "o", "u", "r", "c", "e", "s">>),
     RawLine(<<"s", "e", "r", "i", "a", "l", " ", "0", " ", "6", "4">>),
     RawLine(board_name)}

\* The texts: every sequence of at most MaxLines of those lines.
FullTexts == UNION {[1..k -> ShapedLines \cup OtherLines] : k \in 0..MaxLines}

InitText ==
    /\ lines \in FullTexts
    /\ pos = 0
    /\ bf_config = EmptyModel
    /\ pinmap = EmptyPinMap
    /\ errors = <<>>
    /\ warnings = <<>>
    /\ ret = [op |-> "_parse", raised |-> None]

\* One turn of the loop over the lines; an exception ends the loop and
\* leaves the fields as the handlers before it set them.
ParseTextLine ==
    /\ pos < Len(lines)
    /\ ret.raised = None
    /\ LET after == _parse_line(bf_config, lines[pos + 1])
       IN  IF after = IndexError
           THEN /\ bf_config' = _parse_define(
                                   _parse_header(bf_config, lines[pos + 1]),
                                   lines[pos + 1])
                /\ ret' = [ret EXCEPT !.raised = "IndexError"]
           ELSE /\ bf_config' = after
                /\ ret' = ret
    /\ pos' = pos + 1
    /\ UNCHANGED <<pinmap, errors, warnings, lines>>

NextText == ParseTextLine

SpecText == InitText /\ [][NextText]_vars

-----------------------------------------------------------------------------
(* C22 *)

\* A line has one of the shapes of the configuration text: a header
\* comment with an MCU type token, board_name <token>,
\* manufacturer_id <token>, #define <token>, or a line that one of the
\* regular expressions matches.
RecognizedShape(line) ==
    \/ line.kind # "text"
    \/ LET words == SplitWords(line.text)
       IN  /\ Len(words) >= 2
           /\ \/ words[1] \in {board_name, manufacturer_id, HashDefine}
              \/ /\ words[1] = <<"#">>
                 /\ \E i \in 2..Len(words) : StartsWith(words[i], STM32)

\* C22: a turn of the loop of _parse on a blank line, or on a line of no
\* recognized shape, leaves every field of the ConfigModel as it was and
\* raises nothing.
C22_UnrecognizedLineIgnored ==
    [][(pos' = pos + 1 /\ ~RecognizedShape(lines[pos + 1]))
          => (bf_config' = bf_config /\ ret'.raised = None)]_vars

-----------------------------------------------------------------------------
(* C23 *)

-----------------------------------------------------------------------------
(* validator.py: validate_servos; code_generator.py: the emitter.  A block
   of the generated text is the record of what it prints; the lines of C++
   around the values are left out. *)

\* None where a ConfigModel, a list or a block is expected: an attribute
\* that does not exist was read.
AttributeError == [raised |-> "AttributeError"]

\* ConfigValidator.validate_servos: the for statement calls
\* self.bf_config.get_servos(), which BetaflightConfig does not define.
validate_servos_run(cfg, pm) == AttributeError

\* None where a block of text is expected.
NoBlock == [block |-> "None"]

\* What a _generate_* method gives: the block, and what its validate_* call
\* appended to the validator's lists.
Block(val, out) == [val |-> val, out |-> out]

\* int(self.bf_config.settings.get(key, default)) for a one-digit value.
SettingInt(cfg, key, default) ==
    IF key \in DOMAIN cfg.settings
    THEN CHOOSE d \in 0..9 : DigitChar(d) = cfg.settings[key]
    ELSE default

\* next((b for b in spi_buses if b.bus_num == n), None)
FirstBus(spi_buses, n) ==
    LET hit == {i \in 1..Len(spi_buses) : spi_buses[i].bus_num = n}
    IN  IF hit = {} THEN NoBlock
        ELSE spi_buses[CHOOSE i \in hit : \A j \in hit : i <= j]

\* BoardConfigGenerator._generate_storage
_generate_storage(cfg, pm) ==
    LET flash_cs == get_resources(cfg, "FLASH_CS")
        sdcard_cs == get_resources(cfg, "SDCARD_CS")
        blackbox_device == IF "blackbox_device" \in DOMAIN cfg.settings
                           THEN cfg.settings["blackbox_device"] ELSE None
        use_flash == flash_cs # <<>>
                        /\ (blackbox_device = "SPIFLASH" \/ sdcard_cs = <<>>)
        r == validate_spi_buses_run(cfg, pm)
        n == IF use_flash THEN SettingInt(cfg, "flash_spi_bus", 2)
             ELSE SettingInt(cfg, "sdcard_spi_bus", 3)
        cs == IF use_flash THEN flash_cs[1].pin ELSE sdcard_cs[1].pin
        spi_bus == FirstBus(r.validated, n)
    IN  IF flash_cs = <<>> /\ sdcard_cs = <<>>
        THEN Block(NoBlock, Out(<<>>, <<>>, <<>>))
        ELSE IF spi_bus = NoBlock
        THEN Block([block |-> "storage", text |-> "// ERROR: Could not find SPI",
                    bus_num |-> n], r)
        ELSE Block([block |-> "storage", text |-> "StorageConfig",
                    spi_bus |-> spi_bus, cs_pin |-> convert_pin_format(cs)], r)

\* BoardConfigGenerator._generate_imu
_generate_imu(cfg, pm) ==
    LET gyro_cs == get_resources(cfg, "GYRO_CS")
        gyro_exti == get_resources(cfg, "GYRO_EXTI")
        n == SettingInt(cfg, "gyro_1_spibus", 1)
        r == validate_spi_buses_run(cfg, pm)
        spi_bus == FirstBus(r.validated, n)
    IN  IF gyro_cs = <<>> THEN Block(NoBlock, Out(<<>>, <<>>, <<>>))
        ELSE IF spi_bus = NoBlock
        THEN Block([block |-> "imu", text |-> "// ERROR: Could not find SPI",
                    bus_num |-> n], r)
        ELSE Block([block |-> "imu", text |-> "IMUConfig", spi_bus |-> spi_bus,
                    cs_pin |-> convert_pin_format(gyro_cs[1].pin),
                    int_pin |-> IF gyro_exti # <<>>
                                THEN convert_pin_format(gyro_exti[1].pin)
                                ELSE <<"0">>], r)

\* BoardConfigGenerator._generate_i2c
_generate_i2c(cfg, pm) ==
    LET r == validate_i2c_buses_run(cfg, pm)
    IN  IF r.validated = <<>> THEN Block(NoBlock, r)
        ELSE Block([block |-> "i2c", text |-> "I2CConfig", buses |-> r.validated], r)

\* BoardConfigGenerator._generate_uarts
_generate_uarts(cfg, pm) ==
    LET r == validate_uarts_run(cfg, pm)
    IN  IF r.validated = <<>> THEN Block(NoBlock, r)
        ELSE Block([block |-> "uarts", text |-> "UARTConfig", uarts |-> r.validated], r)

\* BoardConfigGenerator._generate_servos: validate_servos is its first
\* statement.
_generate_servos(cfg, pm) ==
    IF validate_servos_run(cfg, pm) = AttributeError THEN AttributeError
    ELSE Block(NoBlock, Out(<<>>, <<>>, <<>>))

\* What generate has when validate_servos raises: the blocks made so far
\* that are not None, and what their validate_* calls appended.
generate_lines(made, servos) ==
    [lines |-> SelectSeq([i \in 1..4 |-> made[i].val], LAMBDA b : b # NoBlock),
     out |-> Out(<<>>,
                 made[1].out.errors \o made[2].out.errors
                     \o made[3].out.errors \o made[4].out.errors,
                 made[1].out.warnings \o made[2].out.warnings
                     \o made[3].out.warnings \o made[4].out.warnings),
     raised |-> IF servos = AttributeError THEN "AttributeError" ELSE None]

\* BoardConfigGenerator.generate as far as the servo block, where
\* validate_servos raises: the blocks before it have been built and their
\* validate_* calls have appended to the lists; _generate_adc and
\* _generate_leds between them read resources only; _generate_motors and
\* the join of the lines are never reached.
generate_run(cfg, pm) ==
    CHOOSE g \in {generate_lines(made, _generate_servos(cfg, pm)) :
                    made \in {<<_generate_storage(cfg, pm),
                                _generate_imu(cfg, pm),
                                _generate_i2c(cfg, pm),
                                _generate_uarts(cfg, pm)>>}} : TRUE

\* The lines of the configurations handed to the emitter.
EmitLines ==
    {ResourceLine("GYRO_CS", 1, <<"A", "0", "4">>),
     ResourceLine("FLASH_CS", 1, <<"B", "0", "2">>),
     ResourceLine("SDCARD_CS", 1, <<"B", "1", "2">>),
     ResourceLine("SPI_SCK", 1, A05),
     ResourceLine("SPI_MISO", 1, A06),
     ResourceLine("SPI_MOSI", 1, A07),
     ResourceLine("SERVO", 1, B07),
     SettingLine("flash_spi_bus", "1")}

EmitTexts == UNION {[1..k -> EmitLines] : k \in 0..MaxLines}

\* BetaflightConfig._parse over a whole text, all handlers; the texts hold
\* no line that makes a handler raise.
RECURSIVE _parse_text(_, _)
_parse_text(cfg, text) ==
    IF text = <<>> THEN cfg
    ELSE _parse_text(_parse_line(cfg, Head(text)), Tail(text))

\* The converter's main: config and pin map parsed, validator built,
\* validate_all called, generator built on them.
InitEmit ==
    /\ \E text \in EmitTexts : bf_config = _parse_text(EmptyModel, text)
    /\ pinmap \in PinMaps
    /\ errors = validate_all_run(bf_config, pinmap).errors
    /\ warnings = validate_all_run(bf_config, pinmap).warnings
    /\ ret = [op |-> "validate_all",
              val |-> validate_all_result(errors, warnings)]
    /\ lines = <<>>
    /\ pos = 0

generate ==
    /\ ret.op = "validate_all"
    /\ \E g \in {generate_run(bf_config, pinmap)} :
           /\ errors' = errors \o g.out.errors
           /\ warnings' = warnings \o g.out.warnings
           /\ ret' = [op |-> "generate", raised |-> g.raised, val |-> g.lines]
    /\ UNCHANGED <<bf_config, pinmap, lines, pos>>

call__generate_storage ==
    /\ ret.op = "validate_all"
    /\ LET b == _generate_storage(bf_config, pinmap)
       IN  /\ errors' = errors \o b.out.errors
           /\ warnings' = warnings \o b.out.warnings
           /\ ret' = [op |-> "_generate_storage", raised |-> None, val |-> b.val]
    /\ UNCHANGED <<bf_config, pinmap, lines, pos>>

call__generate_imu ==
    /\ ret.op = "validate_all"
    /\ LET b == _generate_imu(bf_config, pinmap)
       IN  /\ errors' = errors \o b.out.errors
           /\ warnings' = warnings \o b.out.warnings
           /\ ret' = [op |-> "_generate_imu", raised |-> None, val |-> b.val]
    /\ UNCHANGED <<bf_config, pinmap, lines, pos>>

call__generate_servos ==
    /\ ret.op = "validate_all"
    /\ ret' = IF _generate_servos(bf_config, pinmap) = AttributeError
              THEN [op |-> "_generate_servos", raised |-> "AttributeError",
                    val |-> NoBlock]
              ELSE [op |-> "_generate_servos", raised |-> None,
                    val |-> _generate_servos(bf_config, pinmap).val]
    /\ UNCHANGED <<bf_config, pinmap, errors, warnings, lines, pos>>

NextEmit ==
    \/ generate
    \/ call__generate_storage
    \/ call__generate_imu
    \/ call__generate_servos

SpecEmit == InitEmit /\ [][NextEmit]_vars

-----------------------------------------------------------------------------
(* C24 *)

\* A block holds error text.
IsErrorText(b) == b # NoBlock /\ b.text = "// ERROR: Could not find SPI"

\* C24: generate() ends without raising, and no block of the text it
\* builds is error text; _generate_storage and _generate_imu give no block
\* and no error text when validate_spi_buses returns no bus of the number
\* they need; _generate_servos gives no block and does not raise when the
\* configuration has no SERVO resource.
C24_AbsentPrerequisiteOmitsBlock ==
    /\ ret.op = "generate" =>
          /\ ret.raised = None
          /\ \A b \in Range(ret.val) : ~IsErrorText(b)
    /\ ret.op \in {"_generate_storage", "_generate_imu"} =>
          (validate_spi_buses_run(bf_config, pinmap).validated = <<>>
              => ret.val = NoBlock)
    /\ ret.op = "_generate_servos" =>
          (get_resources(bf_config, "SERVO") = <<>>
              => ret.raised = None /\ ret.val = NoBlock)

-----------------------------------------------------------------------------
(* Two conversion runs.  Each run builds its own BetaflightConfig,
   PeripheralPinMap and ConfigValidator and calls validate_all; the steps of
   the two runs interleave in any order.  Every variable holds one value per
   run: bf_config[r], pinmap[r], errors[r], warnings[r]; lines[r] is the
   configuration text of run r, ret[r] its PeripheralPins.c and what its
   calls returned, pos[r] the number of steps it has taken. *)

Runs == {1, 2}

\* The configuration texts of the runs.
RunTexts ==
    {<<>>,
     <<ResourceLine("MOTOR", 1, A08), TimerLine(A08, 1), TimerComment(A08, "TIM1", 1)>>,
     <<ResourceLine("MOTOR", 2, B06), ResourceLine("I2C_SCL", 1, B08)>>,
     <<ResourceLine("SPI_SCK", 1, A05), ResourceLine("SERIAL_TX", 1, B06)>>}

InitRuns ==
    /\ lines \in [Runs -> RunTexts]
    /\ \E contents \in [Runs -> {SampleContent, [PinMap_TIM |-> <<>>]}] :
          ret = [r \in Runs |-> [content |-> contents[r]]]
    /\ pos = [r \in Runs |-> 0]
    /\ bf_config = [r \in Runs |-> EmptyConfig]
    /\ pinmap = [r \in Runs |-> EmptyPinMap]
    /\ errors = [r \in Runs |-> <<>>]
    /\ warnings = [r \in Runs |-> <<>>]

\* A validate_motors whose validators append to one errors list, that of
\* the class.
run_validate_motors_shared_log(r) ==
    /\ pos[r] = 4
    /\ LET out == validate_motors_run(bf_config[r], pinmap[r])
       IN  /\ errors' = [q \in Runs |-> errors[q] \o out.errors]
           /\ warnings' = [warnings EXCEPT ![r] = @ \o out.warnings]
           /\ ret' = [ret EXCEPT ![r] =
                        [content |-> @.content, motors |-> out.validated]]
    /\ pos' = [pos EXCEPT ![r] = 5]
    /\ UNCHANGED <<bf_config, pinmap, lines>>

\* BetaflightConfig(path)
run_parse_config(r) ==
    /\ pos[r] = 0
    /\ bf_config' = [bf_config EXCEPT ![r] = _parse(EmptyConfig, lines[r])]
    /\ pos' = [pos EXCEPT ![r] = 1]
    /\ UNCHANGED <<pinmap, errors, warnings, ret, lines>>

\* PeripheralPinMap(path)
run_parse_pinmap(r) ==
    /\ pos[r] = 1
    /\ pinmap' = [pinmap EXCEPT ![r] = PeripheralPinMap(ret[r].content)]
    /\ pos' = [pos EXCEPT ![r] = 2]
    /\ UNCHANGED <<bf_config, errors, warnings, ret, lines>>

\* ConfigValidator(bf_config, pinmap): two new lists.
run_new_validator(r) ==
    /\ pos[r] = 2
    /\ errors' = [errors EXCEPT ![r] = <<>>]
    /\ warnings' = [warnings EXCEPT ![r] = <<>>]
    /\ pos' = [pos EXCEPT ![r] = 3]
    /\ UNCHANGED <<bf_config, pinmap, ret, lines>>

\* validate_all: the two clear() calls.
run_validate_all_clear(r) ==
    /\ pos[r] = 3
    /\ errors' = [errors EXCEPT ![r] = <<>>]
    /\ warnings' = [warnings EXCEPT ![r] = <<>>]
    /\ pos' = [pos EXCEPT ![r] = 4]
    /\ UNCHANGED <<bf_config, pinmap, ret, lines>>

\* validate_all: self.validate_motors()
run_validate_motors(r) ==
    /\ pos[r] = 4
    /\ LET out == validate_motors_run(bf_config[r], pinmap[r])
       IN  /\ errors' = [errors EXCEPT ![r] = @ \o out.errors]
           /\ warnings' = [warnings EXCEPT ![r] = @ \o out.warnings]
           /\ ret' = [ret EXCEPT ![r] =
                        [content |-> @.content, motors |-> out.validated]]
    /\ pos' = [pos EXCEPT ![r] = 5]
    /\ UNCHANGED <<bf_config, pinmap, lines>>

\* validate_all: self.validate_spi_buses()
run_validate_spi_buses(r) ==
    /\ pos[r] = 5
    /\ LET out == validate_spi_buses_run(bf_config[r], pinmap[r])
       IN  /\ errors' = [errors EXCEPT ![r] = @ \o out.errors]
           /\ warnings' = [warnings EXCEPT ![r] = @ \o out.warnings]
    /\ pos' = [pos EXCEPT ![r] = 6]
    /\ UNCHANGED <<bf_config, pinmap, ret, lines>>

\* validate_all: self.validate_i2c_buses()
run_validate_i2c_buses(r) ==
    /\ pos[r] = 6
    /\ LET out == validate_i2c_buses_run(bf_config[r], pinmap[r])
       IN  /\ errors' = [errors EXCEPT ![r] = @ \o out.errors]
           /\ warnings' = [warnings EXCEPT ![r] = @ \o out.warnings]
    /\ pos' = [pos EXCEPT ![r] = 7]
    /\ UNCHANGED <<bf_config, pinmap, ret, lines>>

\* validate_all: self.validate_uarts() and the return.
run_validate_uarts(r) ==
    /\ pos[r] = 7
    /\ LET out == validate_uarts_run(bf_config[r], pinmap[r])
       IN  /\ errors' = [errors EXCEPT ![r] = @ \o out.errors]
           /\ warnings' = [warnings EXCEPT ![r] = @ \o out.warnings]
           /\ ret' = [ret EXCEPT ![r] =
                        [content |-> @.content, motors |-> @.motors,
                         val |-> validate_all_result(errors[r] \o out.errors,
                                                     warnings[r] \o out.warnings)]]
    /\ pos' = [pos EXCEPT ![r] = 8]
    /\ UNCHANGED <<bf_config, pinmap, lines>>

NextRuns ==
    \E r \in Runs :
        \/ run_parse_config(r)
        \/ run_parse_pinmap(r)
        \/ run_new_validator(r)
        \/ run_validate_all_clear(r)
        \/ run_validate_motors(r)
        \/ run_validate_spi_buses(r)
        \/ run_validate_i2c_buses(r)
        \/ run_validate_uarts(r)

SpecRuns == InitRuns /\ [][NextRuns]_vars

-----------------------------------------------------------------------------
(* C25 *)

\* C25: whatever the interleaving of the steps of the two runs, a run that
\* has ended holds the models parsed from its own two texts, and its
\* validated motors, its errors, its warnings and its result are those of
\* validate_all run alone on these models.
C25_RunsIsolated ==
    \A r \in Runs :
        pos[r] = 8 =>
            LET cfg == _parse(EmptyConfig, lines[r])
                pm == PeripheralPinMap(ret[r].content)
                alone == validate_all_run(cfg, pm)
            IN  /\ bf_config[r] = cfg
                /\ pinmap[r] = pm
                /\ errors[r] = alone.errors
                /\ warnings[r] = alone.warnings
                /\ ret[r].motors = validate_motors_run(cfg, pm).validated
                /\ ret[r].val = validate_all_result(alone.errors, alone.warnings)

\* Both runs have ended, on different texts, each with an error of its own.
C25_Witness ==
    /\ \A r \in Runs : pos[r] = 8 /\ errors[r] # <<>>
    /\ lines[1] # lines[2]
    /\ errors[1] # errors[2]

-----------------------------------------------------------------------------
(* C26 *)

\* C26: after validate_all, every SERVO resource whose logical pin has no
\* TimerAssignment, or whose physical pin has no capability record for the
\* timer and AF of its assignment, has an error under SERVO_<index>, and
\* validate_all has returned false.
C26_UnresolvableServoRejected ==
    ret.op = "validate_all" =>
        \A servo \in Range(get_resources(bf_config, "SERVO")) :
            (\/ servo.pin \notin DOMAIN bf_config.timers
             \/ TimerRecords(pinmap, PhysicalPinForm(servo.pin),
                             bf_config.timers[servo.pin].timer,
                             bf_config.timers[servo.pin].af) = {})
                => /\ IssuesOf(errors, "SERVO_", servo.index) # <<>>
                   /\ ret.val = FALSE

-----------------------------------------------------------------------------
(* C27 *)

\* C27: a call of validate_spi_buses, validate_i2c_buses or validate_uarts
\* returns at most one entry, and appends at most one issue, for each
\* logical index, also when the text repeats a resource line.
C27_OnePerIndex ==
    [][/\ validate_spi_buses =>
            \A n \in 1..9 :
                /\ Len(EntriesOf(ret'.val, n)) <= 1
                /\ Len(IssuesOf(Appended(errors, errors')
                                  \o Appended(warnings, warnings'), "SPI", n)) <= 1
       /\ validate_i2c_buses =>
            \A n \in 1..9 :
                /\ Len(EntriesOf(ret'.val, n)) <= 1
                /\ Len(IssuesOf(Appended(errors, errors')
                                  \o Appended(warnings, warnings'), "I2C", n)) <= 1
       /\ validate_uarts =>
            \A n \in 1..9 :
                /\ Len(EntriesOf(ret'.val, n)) <= 1
                /\ Len(IssuesOf(Appended(errors, errors')
                                  \o Appended(warnings, warnings'), "UART", n)) <= 1
    ]_vars

-----------------------------------------------------------------------------
(* C28 *)

\* C28: a call of validate_motors on a motor whose TimerAssignment has no
\* timer name (a timer line without annotation) or has AF 0 (an annotation
\* without timer line) does not return the motor and appends exactly one
\* error for it, the capability mismatch; the AF codes of the table are
\* in 1..15.
C28_HalfAssignmentNeverValidated ==
    [][validate_motors =>
        ((\A tp \in Range(pinmap.timer_pins) : tp.af \in 1..15) =>
            \A m \in SingleMotors(bf_config) :
                (/\ m.pin \in DOMAIN bf_config.timers
                 /\ \/ bf_config.timers[m.pin].timer = None
                    \/ bf_config.timers[m.pin].af = 0)
                => LET errs == IssuesOf(Appended(errors, errors'),
                                        "MOTOR_", m.index)
                   IN  /\ EntriesOf(ret'.val, m.index) = <<>>
                       /\ Len(errs) = 1
                       /\ errs[1].message.kind = "does not support"
                       /\ IssuesOf(Appended(warnings, warnings'),
                                   "MOTOR_", m.index) = <<>>)
    ]_vars

\* validate_motors has rejected a motor whose pin has a timer line only,
\* with an AF that the table has for the pin.
C28_Witness ==
    /\ ret.op = "validate_motors"
    /\ ret.val = <<>>
    /\ \E m \in SingleMotors(bf_config) :
          /\ m.pin \in DOMAIN bf_config.timers
          /\ bf_config.timers[m.pin].timer = None
          /\ \E tp \in Range(pinmap.timer_pins) :
                tp.pin = PhysicalPinForm(m.pin) /\ tp.af = bf_config.timers[m.pin].af
          /\ \E e \in Range(IssuesOf(errors, "MOTOR_", m.index)) :
                e.message.kind = "does not support" /\ e.message.timer = None

-----------------------------------------------------------------------------
(* C29 *)

\* The last n entries of a list.
LastOf(q, n) == SubSeq(q, Len(q) - n + 1, Len(q))

\* C29: a call of validate_motors, validate_spi_buses, validate_i2c_buses
\* or validate_uarts keeps the entries that errors and warnings hold, in
\* their order, and appends its own after them; and when the call before
\* it was a call of the same method, what it appends is what that call
\* appended, a second time.
C29_AppendOnlyOutsideValidateAll ==
    [][(validate_motors \/ validate_spi_buses \/ validate_i2c_buses \/ validate_uarts)
        => /\ Len(errors') >= Len(errors)
           /\ SubSeq(errors', 1, Len(errors)) = errors
           /\ Len(warnings') >= Len(warnings)
           /\ SubSeq(warnings', 1, Len(warnings)) = warnings
           /\ ret.op = ret'.op =>
                /\ LastOf(errors, Len(errors') - Len(errors))
                      = Appended(errors, errors')
                /\ LastOf(warnings, Len(warnings') - Len(warnings))
                      = Appended(warnings, warnings')
    ]_vars

\* validate_motors has been called twice on a configuration with one
\* motor: its error stands twice in the list.
C29_Witness ==
    /\ ret.op = "validate_motors"
    /\ Len(get_motors(bf_config)) = 1
    /\ Len(errors) = 2
    /\ errors[1] = errors[2]
    /\ errors[1].resource.prefix = "MOTOR_"

-----------------------------------------------------------------------------
(* C30 *)

\* The channel of the first record of the table with the pin, the timer
\* name and the AF; None when there is none.
FirstChannel(pm, pin, timer, af) ==
    LET tps == pm.timer_pins
        hit == {i \in 1..Len(tps) :
                    tps[i].pin = pin /\ tps[i].timer = timer /\ tps[i].af = af}
    IN  IF hit = {} THEN NoneInt
        ELSE tps[CHOOSE i \in hit : \A j \in hit : i <= j].channel

\* The table with the complementary-channel flag of every record inverted.
FlagsInverted(pm) ==
    [pm EXCEPT !.timer_pins =
        [i \in 1..Len(pm.timer_pins) |->
            [pm.timer_pins[i] EXCEPT !.is_complementary = ~@]]]

\* C30 as stated: validate_timer(pin, timer, af) returns the channel of the
\* first record whose pin, timer name and AF are the three arguments, and
\* None when no record has all three.
C30_FirstRecordOfPinTimerAf ==
    ret.op = "validate_timer" =>
        ret.val = FirstChannel(pinmap, ret.pin, ret.timer, ret.af)

\* C30: validate_timer(pin, timer, af) returns the channel of the first
\* record, in table order, whose timer name and AF are the arguments and
\* whose pin is the pin argument without its _ALT<n> suffix, and None when
\* there is none; no timer record holds an _ALT suffix; and the result is
\* the same on the table with every complementary-channel flag inverted.
C30_FirstRecordOfBasePin ==
    ret.op = "validate_timer" =>
        /\ ret.val = FirstChannel(pinmap, Split(ret.pin, ALT)[1], ret.timer, ret.af)
        /\ \A tp \in Range(pinmap.timer_pins) : ~Contains(tp.pin, ALT)
        /\ Len(pinmap.timer_pins) = Len(EntriesIn(ret.content, "PinMap_TIM"))
        /\ ret.val = validate_timer(FlagsInverted(pinmap), ret.pin, ret.timer, ret.af)

\* validate_timer(PB4, TIM3, 2) has been called on a table with two records
\* of PB4 for TIM3 on AF2, of different channels, one of them complementary
\* and parsed from an _ALT1 entry.
C30_Witness ==
    /\ ret.op = "validate_timer"
    /\ ret.pin = <<"P", "B", "4">>
    /\ ret.val # NoneInt
    /\ \E i, j \in 1..Len(pinmap.timer_pins) :
          /\ i < j
          /\ pinmap.timer_pins[i].pin = ret.pin
          /\ pinmap.timer_pins[j].pin = ret.pin
          /\ pinmap.timer_pins[i].timer = ret.timer
          /\ pinmap.timer_pins[j].timer = ret.timer
          /\ pinmap.timer_pins[i].af = ret.af
          /\ pinmap.timer_pins[j].af = ret.af
          /\ pinmap.timer_pins[i].is_complementary
          /\ pinmap.timer_pins[i].channel = ret.val
          /\ pinmap.timer_pins[j].channel # ret.val

====
